---- MODULE Spec2Model ----
(***************************************************************************)
(* Boostly: peer-recognition credit ledger.  The committed database        *)
(* (ledger, quota, recognitions, endorsements, redemptions), the request   *)
(* handlers that mutate it in one transaction each, and the monthly reset  *)
(* job.  Spec runs the handlers one after another; ConcSpec interleaves    *)
(* the statements of concurrent request transactions (READ COMMITTED).     *)
(***************************************************************************)
EXTENDS Integers, Sequences, FiniteSets, TLC

(* ------------------------------------------------------------------ *)
(* Bounds of the model                                                 *)
(* ------------------------------------------------------------------ *)
MaxRecognitions == 3
MaxMonths == 1
MaxRedemptions == 1
MaxEndorsements == 2
MaxTxns == 4
MaxResetMonths == 2

(* ------------------------------------------------------------------ *)
(* Inputs                                                              *)
(* ------------------------------------------------------------------ *)
Students == {"s1", "s2"}
ThirdStudent == "s3"
UnknownStudent == "s0"
CreditsToSend == {30, 100}
CreditsToRedeem == {30, 100}
\* amounts of the sending-cap scenarios
CapAmounts == {20, 30, 80}
ResetDays == {1}
StartMonth == <<2025, 12>>
Procs == {1, 2}
\* requests that fail validation or lookup: self-recognition, unknown ids
InvalidSendRequests ==
  {<<"s1", "s1", 30>>, <<"s0", "s0", 30>>, <<"s0", "s1", 30>>, <<"s1", "s0", 30>>}

(* ------------------------------------------------------------------ *)
(* Program constants                                                   *)
(* ------------------------------------------------------------------ *)
DefaultSendLimit == 100
MonthlyAllowance == 100
CarryForwardCap == 50
VoucherMultiplier == 5

None == <<>>
NoId == 0

VARIABLES
  students,                  \* table students (student ids), never written
  clock,                     \* <<year, month>> of the wall clock (UTC)
  ledger,                    \* table credit_ledger, in ledger_entry_id order
  monthly_quota,             \* table monthly_quota
  recognitions,              \* table recognitions
  recognition_endorsements,  \* table recognition_endorsements
  redemptions,               \* table redemptions
  last,                      \* outcome of the last request or job run
  txn,                       \* open transactions of concurrent requests
  started                    \* number of concurrent transactions begun

dbvars == <<ledger, monthly_quota, recognitions, recognition_endorsements, redemptions>>

\* the ids a request names as its acting student, one of them of no student
StudentIds == Students \cup {UnknownStudent}
\* senders are s1 and s2, the receiver is any other student of the table
SendRequests ==
  {q \in Students \X students \X CreditsToSend : q[1] # q[2]} \cup InvalidSendRequests
RedeemRequests == (Students \X CreditsToRedeem) \cup {<<UnknownStudent, 30>>}
vars == <<students, clock, ledger, monthly_quota, recognitions, recognition_endorsements,
          redemptions, last, txn, started>>

(* ------------------------------------------------------------------ *)
(* utils/datetime.py                                                   *)
(* ------------------------------------------------------------------ *)
month_bucket(now) == <<now[1], now[2], 1>>

previous_month_bucket(bucket) ==
  LET month == bucket[2] - 1
  IN  IF month = 0 THEN <<bucket[1] - 1, 12, 1>> ELSE <<bucket[1], month, 1>>

\* date >= date, as Python compares datetime.date values
DateGE(a, b) ==
  \/ a[1] > b[1]
  \/ a[1] = b[1] /\ a[2] > b[2]
  \/ a[1] = b[1] /\ a[2] = b[2] /\ a[3] >= b[3]

Min(a, b) == IF a < b THEN a ELSE b
Max(a, b) == IF a > b THEN a ELSE b

(* ------------------------------------------------------------------ *)
(* Rows                                                                *)
(* ------------------------------------------------------------------ *)
Negative == {"RECOGNITION_SENT", "REDEMPTION", "CARRY_FORWARD_EXPIRED"}
Positive == {"RECOGNITION_RECEIVED", "MONTHLY_RESET", "CARRY_FORWARD"}
CreditEventType == Negative \cup Positive

CreditLedger(student_id, event_type, credits_delta, bucket, recognition_id, redemption_id) ==
  [student_id |-> student_id, related_recognition |-> recognition_id,
   related_redemption |-> redemption_id, event_type |-> event_type,
   credits_delta |-> credits_delta, month_bucket |-> bucket]

\* the CHECK constraint credit_ledger_delta_sign
credit_ledger_delta_sign(e) ==
  \/ e.event_type \in Negative /\ e.credits_delta < 0
  \/ e.event_type \in Positive /\ e.credits_delta > 0

MonthlyQuota(student_id, bucket) ==
  [student_id |-> student_id, month_bucket |-> bucket, credits_sent |-> 0,
   send_limit |-> DefaultSendLimit, carry_forward_applied |-> FALSE,
   carry_forward_credits |-> 0, reset_at |-> None]

Recognition(recognition_id, sender_id, receiver_id, credits_transferred, bucket) ==
  [recognition_id |-> recognition_id, sender_id |-> sender_id, receiver_id |-> receiver_id,
   credits_transferred |-> credits_transferred, month_bucket |-> bucket,
   endorsement_count |-> 0]

RecognitionEndorsement(recognition_id, endorser_id) ==
  [recognition_id |-> recognition_id, endorser_id |-> endorser_id]

\* mutant: the status passed is dropped, the column default PENDING stays
Redemption_DefaultStatus(redemption_id, student_id, credits_redeemed, status) ==
  [redemption_id |-> redemption_id, student_id |-> student_id,
   credits_redeemed |-> credits_redeemed,
   voucher_value |-> credits_redeemed * VoucherMultiplier, status |-> "PENDING"]

Redemption(redemption_id, student_id, credits_redeemed, status) ==
  [redemption_id |-> redemption_id, student_id |-> student_id,
   credits_redeemed |-> credits_redeemed,
   voucher_value |-> credits_redeemed * VoucherMultiplier, status |-> status]

(* ------------------------------------------------------------------ *)
(* Queries                                                             *)
(* ------------------------------------------------------------------ *)
RECURSIVE SumDelta(_)
SumDelta(rows) ==
  IF rows = <<>> THEN 0 ELSE Head(rows).credits_delta + SumDelta(Tail(rows))

\* coalesce(sum(credits_delta), 0) WHERE student_id = .. AND event_type IN kinds
SumOfKinds(led, student_id, kinds) ==
  SumDelta(SelectSeq(led, LAMBDA e : e.student_id = student_id /\ e.event_type \in kinds))

_current_balance(led, student_id) ==
  SumDelta(SelectSeq(led, LAMBDA e : e.student_id = student_id))

\* mutant: the redeemable balance forgets redemptions and expiry
_redeemable_balance_received_only(led, student_id) ==
  SumOfKinds(led, student_id, {"RECOGNITION_RECEIVED", "CARRY_FORWARD"})

_redeemable_balance(led, student_id) ==
  LET received_total == SumOfKinds(led, student_id, {"RECOGNITION_RECEIVED", "CARRY_FORWARD"})
      redeemed_total == SumOfKinds(led, student_id, {"REDEMPTION", "CARRY_FORWARD_EXPIRED"})
  IN  received_total + redeemed_total

\* mutant: the existence query filters on the wrong event type
reset_exists_wrong_kind(led, student_id, bucket) ==
  \E i \in 1..Len(led) :
     /\ led[i].student_id = student_id
     /\ led[i].month_bucket = bucket
     /\ led[i].event_type = "CARRY_FORWARD"

\* does a MONTHLY_RESET entry exist for (student, bucket)
reset_exists(led, student_id, bucket) ==
  \E i \in 1..Len(led) :
     /\ led[i].student_id = student_id
     /\ led[i].month_bucket = bucket
     /\ led[i].event_type = "MONTHLY_RESET"

\* positions of the quota rows of (student, bucket)
QuotaAt(quota, student_id, bucket) ==
  {i \in 1..Len(quota) : quota[i].student_id = student_id /\ quota[i].month_bucket = bucket}

\* scalar_one_or_none(): position of the row, 0 for None
QuotaPos(quota, student_id, bucket) ==
  IF QuotaAt(quota, student_id, bucket) = {} THEN 0
  ELSE CHOOSE i \in QuotaAt(quota, student_id, bucket) : TRUE

\* mutant: the lookup is skipped, every id is taken as a student
_ensure_student_trusting(student_id) == TRUE

_ensure_student(student_id) == student_id \in students

DB == [ledger |-> ledger, monthly_quota |-> monthly_quota, recognitions |-> recognitions,
       recognition_endorsements |-> recognition_endorsements, redemptions |-> redemptions]

Result(status, detail, ret, db) == [status |-> status, detail |-> detail, ret |-> ret, db |-> db]


(* ------------------------------------------------------------------ *)
(* services/recognition_service.py                                     *)
(* ------------------------------------------------------------------ *)
\* mutant: an older MONTHLY_RESET entry of the student is moved to the new
\* bucket instead of a new entry being added
_ensure_monthly_context_moves_entry(db, student_id, bucket) ==
  LET quota == IF QuotaPos(db.monthly_quota, student_id, bucket) = 0
               THEN Append(db.monthly_quota, MonthlyQuota(student_id, bucket))
               ELSE db.monthly_quota
      older == {i \in 1..Len(db.ledger) : /\ db.ledger[i].student_id = student_id
                                          /\ db.ledger[i].event_type = "MONTHLY_RESET"}
      led   == IF reset_exists(db.ledger, student_id, bucket) THEN db.ledger
               ELSE IF older # {}
               THEN [db.ledger EXCEPT ![CHOOSE i \in older : TRUE].month_bucket = bucket]
               ELSE Append(db.ledger,
                      CreditLedger(student_id, "MONTHLY_RESET", MonthlyAllowance, bucket, NoId, NoId))
  IN  [db EXCEPT !.monthly_quota = quota, !.ledger = led]

\* mutant: the quota row is created but no MONTHLY_RESET entry is seeded
_ensure_monthly_context_no_seed(db, student_id, bucket) ==
  LET quota == IF QuotaPos(db.monthly_quota, student_id, bucket) = 0
               THEN Append(db.monthly_quota, MonthlyQuota(student_id, bucket))
               ELSE db.monthly_quota
  IN  [db EXCEPT !.monthly_quota = quota]

\* get-or-create the quota row of (student, bucket) and seed MONTHLY_RESET
_ensure_monthly_context(db, student_id, bucket) ==
  LET quota == IF QuotaPos(db.monthly_quota, student_id, bucket) = 0
               THEN Append(db.monthly_quota, MonthlyQuota(student_id, bucket))
               ELSE db.monthly_quota
      led   == IF ~reset_exists(db.ledger, student_id, bucket)
               THEN Append(db.ledger,
                      CreditLedger(student_id, "MONTHLY_RESET", MonthlyAllowance, bucket, NoId, NoId))
               ELSE db.ledger
  IN  [db EXCEPT !.monthly_quota = quota, !.ledger = led]

\* mutant: the cap check forgets what was already sent this month
LimitExceeded_IgnoresSent(sender_quota, credits_transferred) ==
  credits_transferred > sender_quota.send_limit

\* the sending-cap check
LimitExceeded(sender_quota, credits_transferred) ==
  sender_quota.credits_sent + credits_transferred > sender_quota.send_limit

\* mutant: the rejection reports the whole limit as remaining
remaining_allowance_full(sender_quota) == sender_quota.send_limit

\* the remaining allowance a cap rejection reports
remaining_allowance(sender_quota) ==
  Max(sender_quota.send_limit - sender_quota.credits_sent, 0)

\* the balance check
InsufficientBalance(available, credits_transferred) ==
  available < credits_transferred

\* mutant: only the sender's entry is written
RecognitionEntries_SentOnly(sender_id, receiver_id, credits_transferred, bucket, recognition_id) ==
  << CreditLedger(sender_id, "RECOGNITION_SENT", -credits_transferred, bucket, recognition_id, NoId) >>

\* mutant: the receiver's entry is booked on the sender
RecognitionEntries_BothOnSender(sender_id, receiver_id, credits_transferred, bucket, recognition_id) ==
  << CreditLedger(sender_id, "RECOGNITION_SENT", -credits_transferred, bucket, recognition_id, NoId),
     CreditLedger(sender_id, "RECOGNITION_RECEIVED", credits_transferred, bucket, recognition_id, NoId) >>

\* the two ledger entries of a recognition
RecognitionEntries(sender_id, receiver_id, credits_transferred, bucket, recognition_id) ==
  << CreditLedger(sender_id, "RECOGNITION_SENT", -credits_transferred, bucket, recognition_id, NoId),
     CreditLedger(receiver_id, "RECOGNITION_RECEIVED", credits_transferred, bucket, recognition_id, NoId) >>

create_recognition(db, sender_id, receiver_id, credits_transferred, now) ==
  IF sender_id = receiver_id
  THEN Result(400, "Students cannot recognize themselves.", None, db)
  ELSE IF ~_ensure_student(sender_id) \/ ~_ensure_student(receiver_id)
  THEN Result(404, "Student not found", None, db)
  ELSE
    LET bucket == month_bucket(now)
        db1 == _ensure_monthly_context(db, sender_id, bucket)
        db2 == _ensure_monthly_context(db1, receiver_id, bucket)
        qpos == QuotaPos(db2.monthly_quota, sender_id, bucket)
        sender_quota == db2.monthly_quota[qpos]
        remaining == remaining_allowance(sender_quota)
        available == _current_balance(db2.ledger, sender_id)
        recognition_id == Len(db2.recognitions) + 1
        recognition == Recognition(recognition_id, sender_id, receiver_id, credits_transferred, bucket)
    IN  IF LimitExceeded(sender_quota, credits_transferred)
        THEN Result(400, "Monthly sending limit exceeded.", [remaining |-> remaining], db2)
        ELSE IF InsufficientBalance(available, credits_transferred)
        THEN Result(400, "Insufficient balance to send the requested credits.", None, db2)
        ELSE Result(201, "created", recognition,
               [db2 EXCEPT
                 !.recognitions = Append(@, recognition),
                 !.monthly_quota[qpos].credits_sent = @ + credits_transferred,
                 !.ledger = @ \o RecognitionEntries(sender_id, receiver_id, credits_transferred,
                                                    bucket, recognition_id)])

(* ------------------------------------------------------------------ *)
(* services/redemption_service.py                                      *)
(* ------------------------------------------------------------------ *)
\* mutant: an empty pool passes the first check
NoRedeemable_OnlyNegative(redeemable) == redeemable < 0

NoRedeemable(redeemable) == redeemable <= 0

ExceedsRedeemable(credits_redeemed, redeemable) == credits_redeemed > redeemable

redeem(db, student_id, credits_redeemed, now) ==
  IF ~_ensure_student(student_id)
  THEN Result(404, "Student not found", None, db)
  ELSE
    LET redeemable == _redeemable_balance(db.ledger, student_id)
        bucket == month_bucket(now)
        redemption_id == Len(db.redemptions) + 1
        redemption == Redemption(redemption_id, student_id, credits_redeemed, "ISSUED")
        remaining_balance == redeemable - credits_redeemed
    IN  IF NoRedeemable(redeemable)
        THEN Result(400, "No redeemable credits available.", [redeemable |-> redeemable], db)
        ELSE IF ExceedsRedeemable(credits_redeemed, redeemable)
        THEN Result(400, "Requested credits exceed redeemable balance.",
                    [redeemable |-> redeemable], db)
        ELSE Result(201, "created",
               [redemption |-> redemption, remaining_balance |-> remaining_balance,
                redeemable |-> redeemable],
               [db EXCEPT
                 !.redemptions = Append(@, redemption),
                 !.ledger = Append(@, CreditLedger(student_id, "REDEMPTION", -credits_redeemed,
                                                   bucket, NoId, redemption_id))])

(* ------------------------------------------------------------------ *)
(* services/endorsement_service.py                                     *)
(* ------------------------------------------------------------------ *)
_ensure_recognition(recs, recognition_id) == recognition_id \in 1..Len(recs)

\* the existing-endorsement query of (recognition, endorser)
existing(rows, recognition_id, endorser_id) ==
  \E i \in 1..Len(rows) :
     rows[i].recognition_id = recognition_id /\ rows[i].endorser_id = endorser_id

\* mutant: the counter is left alone when an endorsement is added
endorsement_count_unchanged(endorsement_count) == endorsement_count

\* recognition.endorsement_count += 1
endorsement_count_incremented(endorsement_count) == endorsement_count + 1

create_endorsement(db, recognition_id, endorser_id) ==
  IF ~_ensure_recognition(db.recognitions, recognition_id)
  THEN Result(404, "Recognition not found", None, db)
  ELSE IF ~_ensure_student(endorser_id)
  THEN Result(404, "Student not found", None, db)
  ELSE IF existing(db.recognition_endorsements, recognition_id, endorser_id)
  THEN Result(400, "Student has already endorsed this recognition.", None, db)
  ELSE Result(201, "created", RecognitionEndorsement(recognition_id, endorser_id),
         [db EXCEPT
           !.recognition_endorsements = Append(@, RecognitionEndorsement(recognition_id, endorser_id)),
           !.recognitions[recognition_id].endorsement_count = endorsement_count_incremented(@)])

(* ------------------------------------------------------------------ *)
(* services/monthly_reset_service.py                                   *)
(* ------------------------------------------------------------------ *)
\* mutant: the idempotency check compares with > instead of >=
AlreadyReset_StrictlyAfter(current_quota, current_bucket) ==
  /\ current_quota # None
  /\ current_quota.reset_at # None
  /\ DateGE(current_quota.reset_at, current_bucket)
  /\ current_quota.reset_at # current_bucket

\* the idempotency check on the current month's quota row
AlreadyReset(current_quota, current_bucket) ==
  /\ current_quota # None
  /\ current_quota.reset_at # None
  /\ DateGE(current_quota.reset_at, current_bucket)

\* mutant: the sum is not restricted to the three allowance kinds
Unused_AllKinds(led, student_id, prior_bucket) ==
  LET unused == SumDelta(SelectSeq(led, LAMBDA e :
                    /\ e.student_id = student_id
                    /\ e.month_bucket = prior_bucket))
  IN  IF unused < 0 THEN 0 ELSE unused

\* unused credits of the prior month (monthly alloc + carry - sends), floored at 0
Unused(led, student_id, prior_bucket) ==
  LET unused == SumDelta(SelectSeq(led, LAMBDA e :
                    /\ e.student_id = student_id
                    /\ e.month_bucket = prior_bucket
                    /\ e.event_type \in {"MONTHLY_RESET", "CARRY_FORWARD", "RECOGNITION_SENT"}))
  IN  IF unused < 0 THEN 0 ELSE unused

\* mutant: the carry-forward is not capped
CarryForward_Uncapped(unused) == unused

CarryForward(unused) == Min(unused, CarryForwardCap)

\* mutant: the expiry entry debits only the expired part, 0 when nothing expires
ResetEntries_DebitsExpiredPart(led, student_id, current_bucket, unused, carry_forward) ==
     (IF ~reset_exists(led, student_id, current_bucket)
      THEN <<CreditLedger(student_id, "MONTHLY_RESET", MonthlyAllowance, current_bucket, NoId, NoId)>>
      ELSE <<>>)
  \o (IF unused > 0
      THEN <<CreditLedger(student_id, "CARRY_FORWARD_EXPIRED", -(unused - carry_forward),
                          current_bucket, NoId, NoId)>>
      ELSE <<>>)
  \o (IF carry_forward > 0
      THEN <<CreditLedger(student_id, "CARRY_FORWARD", carry_forward, current_bucket, NoId, NoId)>>
      ELSE <<>>)

\* mutant: the baseline entry is added without looking for an existing one
ResetEntries_AlwaysSeeds(led, student_id, current_bucket, unused, carry_forward) ==
     <<CreditLedger(student_id, "MONTHLY_RESET", MonthlyAllowance, current_bucket, NoId, NoId)>>
  \o (IF unused > 0
      THEN <<CreditLedger(student_id, "CARRY_FORWARD_EXPIRED", -unused, current_bucket, NoId, NoId)>>
      ELSE <<>>)
  \o (IF carry_forward > 0
      THEN <<CreditLedger(student_id, "CARRY_FORWARD", carry_forward, current_bucket, NoId, NoId)>>
      ELSE <<>>)

\* mutant: the expiry entry is forgotten, only the carry-forward is booked
ResetEntries_NoExpiry(led, student_id, current_bucket, unused, carry_forward) ==
     (IF ~reset_exists(led, student_id, current_bucket)
      THEN <<CreditLedger(student_id, "MONTHLY_RESET", MonthlyAllowance, current_bucket, NoId, NoId)>>
      ELSE <<>>)
  \o (IF carry_forward > 0
      THEN <<CreditLedger(student_id, "CARRY_FORWARD", carry_forward, current_bucket, NoId, NoId)>>
      ELSE <<>>)

\* the ledger entries the job adds for one student
ResetEntries(led, student_id, current_bucket, unused, carry_forward) ==
     (IF ~reset_exists(led, student_id, current_bucket)
      THEN <<CreditLedger(student_id, "MONTHLY_RESET", MonthlyAllowance, current_bucket, NoId, NoId)>>
      ELSE <<>>)
  \o (IF unused > 0
      THEN <<CreditLedger(student_id, "CARRY_FORWARD_EXPIRED", -unused, current_bucket, NoId, NoId)>>
      ELSE <<>>)
  \o (IF carry_forward > 0
      THEN <<CreditLedger(student_id, "CARRY_FORWARD", carry_forward, current_bucket, NoId, NoId)>>
      ELSE <<>>)

Skipped == [processed |-> FALSE, unused |-> 0, carry_forward |-> 0, expired_amount |-> 0]

\* mutant: the carry-forward flag is set for every processed row
current_quota_rewritten_flag_always(current_quota, carry_forward, now) ==
  [current_quota EXCEPT !.send_limit = DefaultSendLimit,
                        !.credits_sent = 0,
                        !.carry_forward_credits = carry_forward,
                        !.carry_forward_applied = TRUE,
                        !.reset_at = now]

\* the fields the job writes on the current month's quota row
current_quota_rewritten(current_quota, carry_forward, now) ==
  [current_quota EXCEPT !.send_limit = DefaultSendLimit,
                        !.credits_sent = 0,
                        !.carry_forward_credits = carry_forward,
                        !.carry_forward_applied = (carry_forward > 0),
                        !.reset_at = now]

\* the body of the loop over students: [db, student]
ResetStudent(db, student_id, now) ==
  LET current_bucket == month_bucket(now)
      prior_bucket == previous_month_bucket(current_bucket)
      cpos == QuotaPos(db.monthly_quota, student_id, current_bucket)
      current_quota == IF cpos = 0 THEN None ELSE db.monthly_quota[cpos]
      unused == Unused(db.ledger, student_id, prior_bucket)
      carry_forward == CarryForward(unused)
      expired_amount == unused - carry_forward
      ppos == QuotaPos(db.monthly_quota, student_id, prior_bucket)
      q1 == IF ppos # 0
            THEN [db.monthly_quota EXCEPT ![ppos].carry_forward_applied = TRUE]
            ELSE db.monthly_quota
      q2 == IF cpos = 0 THEN Append(q1, MonthlyQuota(student_id, current_bucket)) ELSE q1
      npos == IF cpos = 0 THEN Len(q2) ELSE cpos
      q3 == [q2 EXCEPT ![npos] = current_quota_rewritten(@, carry_forward, now)]
  IN  IF AlreadyReset(current_quota, current_bucket)
      THEN [db |-> db, student |-> Skipped]
      ELSE [db |-> [db EXCEPT
                     !.monthly_quota = q3,
                     !.ledger = @ \o ResetEntries(db.ledger, student_id, current_bucket,
                                                  unused, carry_forward)],
            student |-> [processed |-> TRUE, unused |-> unused,
                         carry_forward |-> carry_forward, expired_amount |-> expired_amount]]

EmptySummary == [students_processed |-> 0, carry_forward_total |-> 0, expired_total |-> 0]

\* mutant: expired_total grows by the whole unused amount
summary_added_whole_unused(summary, student) ==
  IF student.processed
  THEN [students_processed |-> summary.students_processed + 1,
        carry_forward_total |-> summary.carry_forward_total + student.carry_forward,
        expired_total |-> summary.expired_total + student.unused]
  ELSE summary

\* summary[...] += ... at the end of the loop body; a skipped student
\* (continue) adds nothing
summary_added(summary, student) ==
  IF student.processed
  THEN [students_processed |-> summary.students_processed + 1,
        carry_forward_total |-> summary.carry_forward_total + student.carry_forward,
        expired_total |-> summary.expired_total + student.expired_amount]
  ELSE summary

\* the loop over student_ids; acc = [db, summary, students]
RECURSIVE ResetLoop(_, _, _)
ResetLoop(acc, student_ids, now) ==
  IF student_ids = {} THEN acc
  ELSE LET student_id == CHOOSE s \in student_ids : TRUE
           r == ResetStudent(acc.db, student_id, now)
           summary == summary_added(acc.summary, r.student)
       IN  ResetLoop([db |-> r.db, summary |-> summary,
                      students |-> [acc.students EXCEPT ![student_id] = r.student]],
                     student_ids \ {student_id}, now)

run_monthly_reset(db, current_time) ==
  LET acc == ResetLoop([db |-> db, summary |-> EmptySummary,
                        students |-> [s \in students |-> Skipped]], students, current_time)
  IN  Result(200, "ok", [summary |-> acc.summary, students |-> acc.students], acc.db)

(* ------------------------------------------------------------------ *)
(* Requests executed one after another: handler, then commit/rollback  *)
(* ------------------------------------------------------------------ *)
\* no open transaction: no request, no row locks, no pending writes
Idle == [op |-> "idle", pc |-> "idle", req |-> None, role |-> "", lck |-> {},
         ins |-> <<>>, led |-> <<>>, obj |-> None, wr |-> None]

Init ==
  /\ students = Students
  /\ clock = StartMonth
  /\ ledger = <<>>
  /\ monthly_quota = <<>>
  /\ recognitions = <<>>
  /\ recognition_endorsements = <<>>
  /\ redemptions = <<>>
  /\ last = [op |-> "none", args |-> None, status |-> 0, ret |-> None]
  /\ txn = [p \in Procs |-> Idle]
  /\ started = 0

Now(day) == <<clock[1], clock[2], day>>

\* the bucket of the current month
ThisBucket == month_bucket(Now(1))

\* mutant: no rollback, what a rejected handler has flushed stays
Settle_KeepsFlushedWrites(op, args, r) ==
  /\ ledger' = r.db.ledger
  /\ monthly_quota' = r.db.monthly_quota
  /\ recognitions' = r.db.recognitions
  /\ recognition_endorsements' = r.db.recognition_endorsements
  /\ redemptions' = r.db.redemptions
  /\ last' = IF r.status \in {200, 201}
             THEN [op |-> op, args |-> args, status |-> r.status, ret |-> r.ret]
             ELSE last

\* db.commit() after the handler returned, db.rollback() after a rule violation;
\* last keeps the response of the last committed request or job run
Settle(op, args, r) ==
  IF r.status \in {200, 201}
  THEN /\ ledger' = r.db.ledger
       /\ monthly_quota' = r.db.monthly_quota
       /\ recognitions' = r.db.recognitions
       /\ recognition_endorsements' = r.db.recognition_endorsements
       /\ redemptions' = r.db.redemptions
       /\ last' = [op |-> op, args |-> args, status |-> r.status, ret |-> r.ret]
  ELSE UNCHANGED <<dbvars, last>>

CreateRecognition ==
  \E q \in SendRequests :
    LET r == create_recognition(DB, q[1], q[2], q[3], Now(1))
    IN  /\ r.status = 201 => Len(r.db.recognitions) <= MaxRecognitions
        /\ Settle("create_recognition", q, r)
        /\ UNCHANGED <<students, clock, txn, started>>

RedeemCredits ==
  \E q \in RedeemRequests :
    LET r == redeem(DB, q[1], q[2], Now(1))
    IN  /\ r.status = 201 => Len(r.db.redemptions) <= MaxRedemptions
        /\ Settle("redeem", q, r)
        /\ UNCHANGED <<students, clock, txn, started>>

CreateEndorsement ==
  \E recognition_id \in 1..(Len(recognitions) + 1), endorser_id \in StudentIds :
    LET r == create_endorsement(DB, recognition_id, endorser_id)
    IN  /\ r.status = 201 => Len(r.db.recognition_endorsements) <= MaxEndorsements
        /\ Settle("create_endorsement", <<recognition_id, endorser_id>>, r)
        /\ UNCHANGED <<students, clock, txn, started>>

ExecuteMonthlyReset ==
  \E day \in ResetDays :
    LET r == run_monthly_reset(DB, Now(day))
    IN  /\ Settle("run_monthly_reset", <<Now(day)>>, r)
        /\ UNCHANGED <<students, clock, txn, started>>

MonthsElapsed ==
  (clock[1] - StartMonth[1]) * 12 + (clock[2] - StartMonth[2])

AdvanceMonth ==
  /\ MonthsElapsed < MaxMonths
  /\ clock' = IF clock[2] = 12 THEN <<clock[1] + 1, 1>> ELSE <<clock[1], clock[2] + 1>>
  /\ UNCHANGED <<students, dbvars, last, txn, started>>

\* the ledger and quota engines: recognitions, redemptions, the reset job
Next ==
  \/ CreateRecognition
  \/ RedeemCredits
  \/ ExecuteMonthlyReset
  \/ AdvanceMonth

Spec == Init /\ [][Next]_vars

\* the endorsement engine on top of recognitions
EndorseNext ==
  \/ CreateRecognition
  \/ CreateEndorsement

EndorseSpec == Init /\ [][EndorseNext]_vars

\* a students table of three: s3 sends, redeems and endorses nothing, but can
\* be named as the receiver of a recognition; empty tables
InitThree ==
  /\ students = Students \cup {ThirdStudent}
  /\ clock = StartMonth
  /\ ledger = <<>>
  /\ monthly_quota = <<>>
  /\ recognitions = <<>>
  /\ recognition_endorsements = <<>>
  /\ redemptions = <<>>
  /\ last = [op |-> "none", args |-> None, status |-> 0, ret |-> None]
  /\ txn = [p \in Procs |-> Idle]
  /\ started = 0

\* the three request handlers, one request after another
RequestNext ==
  \/ CreateRecognition
  \/ RedeemCredits
  \/ CreateEndorsement

RequestSpec == InitThree /\ [][RequestNext]_vars

\* recognitions of 20, 30 and 80 credits among a students table of three
CapRequests == {q \in Students \X students \X CapAmounts : q[1] # q[2]}

SendTowardsCap ==
  \E q \in CapRequests :
    LET r == create_recognition(DB, q[1], q[2], q[3], Now(1))
    IN  /\ r.status = 201 => Len(r.db.recognitions) <= MaxRecognitions
        /\ Settle("create_recognition", q, r)
        /\ UNCHANGED <<students, clock, txn, started>>

CapSpec == InitThree /\ [][SendTowardsCap]_vars

\* the month changes, up to MaxResetMonths times
TurnMonth ==
  /\ MonthsElapsed < MaxResetMonths
  /\ clock' = IF clock[2] = 12 THEN <<clock[1] + 1, 1>> ELSE <<clock[1], clock[2] + 1>>
  /\ UNCHANGED <<students, dbvars, last, txn, started>>

\* recognitions and reset runs over three months
ResetNext ==
  \/ CreateRecognition
  \/ ExecuteMonthlyReset
  \/ TurnMonth

ResetSpec == Init /\ [][ResetNext]_vars


(* ------------------------------------------------------------------ *)
(* Concurrent request transactions (PostgreSQL, READ COMMITTED): every  *)
(* statement reads the rows committed so far plus the transaction's own *)
(* writes; row locks and pending unique keys are held until the         *)
(* transaction ends.                                                    *)
(* ------------------------------------------------------------------ *)
ValidSendRequests == SendRequests \ InvalidSendRequests
ValidRedeemRequests == Students \X CreditsToRedeem

QuotaKey(student_id, bucket) == <<"monthly_quota", student_id, bucket>>
RecognitionKey(recognition_id) == <<"recognitions", recognition_id>>
EndorsementKey(recognition_id, endorser_id) ==
  <<"recognition_endorsements", recognition_id, endorser_id>>

\* unique keys of the rows a transaction has inserted and not yet committed
PendingKeys(t) ==
  (IF t.op = "create_recognition"
   THEN {QuotaKey(t.ins[i].student_id, t.ins[i].month_bucket) : i \in 1..Len(t.ins)}
   ELSE {})
  \cup (IF t.op = "create_endorsement" /\ t.wr # None
        THEN {EndorsementKey(t.wr.recognition_id, t.wr.endorser_id)} ELSE {})

LockedByOther(p, key) == \E q \in Procs \ {p} : key \in txn[q].lck

\* mutant: the quota row is selected without FOR UPDATE, nobody waits
ForUpdateWaits_PlainSelect(p, key) == FALSE

\* with_for_update(nowait=False): the SELECT waits while another transaction
\* holds the lock of the row
ForUpdateWaits(p, key) == LockedByOther(p, key)
InsertedByOther(p, key) == \E q \in Procs \ {p} : key \in PendingKeys(txn[q])

\* mutant: the table has no unique constraint on (student_id, month_bucket)
monthly_quota_unconstrained(quota, student_id, bucket) == TRUE

\* UniqueConstraint monthly_quota_unique
monthly_quota_unique(quota, student_id, bucket) ==
  QuotaPos(quota, student_id, bucket) = 0

\* mutant: the table has no unique constraint on (recognition_id, endorser_id)
recognition_endorsements_unconstrained(rows, recognition_id, endorser_id) == TRUE

\* UniqueConstraint recognition_endorsements_unique
recognition_endorsements_unique(rows, recognition_id, endorser_id) ==
  ~existing(rows, recognition_id, endorser_id)

\* the transaction ends: commit, rollback after a rule violation (400/404), or
\* an unhandled database error (500, the session is closed and rolled back)
Finish(p, status, ret) ==
  /\ txn' = [txn EXCEPT ![p] = Idle]
  /\ last' = [op |-> txn[p].op, args |-> txn[p].req, status |-> status, ret |-> ret]

Who(t) == IF t.role = "sender" THEN t.req[1] ELSE t.req[2]

BeginRecognition(p) ==
  /\ txn[p].op = "idle" /\ started < MaxTxns
  /\ \E q \in ValidSendRequests :
       txn' = [txn EXCEPT ![p] = [Idle EXCEPT !.op = "create_recognition", !.pc = "select",
                                              !.req = q, !.role = "sender"]]
  /\ started' = started + 1
  /\ UNCHANGED <<students, clock, dbvars, last>>

\* _ensure_monthly_context: SELECT ... FOR UPDATE of the quota row
SelectQuotaForUpdate(p) ==
  LET t == txn[p]
      pos == QuotaPos(monthly_quota, Who(t), ThisBucket)
  IN  /\ t.op = "create_recognition" /\ t.pc = "select"
      /\ IF pos = 0
         THEN txn' = [txn EXCEPT ![p].pc = "insert"]
         ELSE /\ ~ForUpdateWaits(p, QuotaKey(Who(t), ThisBucket))
              /\ txn' = [txn EXCEPT ![p].pc = "seed",
                                    ![p].lck = @ \cup {QuotaKey(Who(t), ThisBucket)},
                                    ![p].obj = IF t.role = "sender" THEN monthly_quota[pos] ELSE @]
      /\ UNCHANGED <<students, clock, dbvars, last, started>>

\* _ensure_monthly_context: session.add(quota); session.flush()
InsertQuota(p) ==
  LET t == txn[p]
  IN  /\ t.op = "create_recognition" /\ t.pc = "insert"
      /\ ~InsertedByOther(p, QuotaKey(Who(t), ThisBucket))
      /\ IF monthly_quota_unique(monthly_quota, Who(t), ThisBucket)
         THEN /\ txn' = [txn EXCEPT ![p].pc = "seed",
                                    ![p].ins = Append(@, MonthlyQuota(Who(t), ThisBucket)),
                                    ![p].obj = IF t.role = "sender"
                                               THEN MonthlyQuota(Who(t), ThisBucket) ELSE @]
              /\ UNCHANGED last
         ELSE Finish(p, 500, "IntegrityError")
      /\ UNCHANGED <<students, clock, dbvars, started>>

\* mutant: the sender's debit is booked together with the seeding, before
\* the cap and balance checks
SeedMonthlyReset_BooksSendEarly(p) ==
  LET t == txn[p]
      seeded == reset_exists(ledger \o t.led, Who(t), ThisBucket)
      led == IF seeded THEN t.led
             ELSE Append(t.led, CreditLedger(Who(t), "MONTHLY_RESET", MonthlyAllowance,
                                             ThisBucket, NoId, NoId))
      sent == CreditLedger(t.req[1], "RECOGNITION_SENT", -t.req[3], ThisBucket, NoId, NoId)
  IN  /\ t.op = "create_recognition" /\ t.pc = "seed"
      /\ txn' = [txn EXCEPT ![p].led = IF t.role = "sender" THEN Append(led, sent) ELSE led,
                            ![p].pc = IF t.role = "sender" THEN "select" ELSE "checks",
                            ![p].role = "receiver"]
      /\ UNCHANGED <<students, clock, dbvars, last, started>>

\* _ensure_monthly_context: seed MONTHLY_RESET when the query finds none
SeedMonthlyReset(p) ==
  LET t == txn[p]
      seeded == reset_exists(ledger \o t.led, Who(t), ThisBucket)
      led == IF seeded THEN t.led
             ELSE Append(t.led, CreditLedger(Who(t), "MONTHLY_RESET", MonthlyAllowance,
                                             ThisBucket, NoId, NoId))
  IN  /\ t.op = "create_recognition" /\ t.pc = "seed"
      /\ txn' = [txn EXCEPT ![p].led = led,
                            ![p].pc = IF t.role = "sender" THEN "select" ELSE "checks",
                            ![p].role = "receiver"]
      /\ UNCHANGED <<students, clock, dbvars, last, started>>

\* cap check on the loaded quota row, balance check, then the pending writes
CheckAndWrite(p) ==
  LET t == txn[p]
      credits == t.req[3]
      available == _current_balance(ledger \o t.led, t.req[1])
      remaining == remaining_allowance(t.obj)
  IN  /\ t.op = "create_recognition" /\ t.pc = "checks"
      /\ IF LimitExceeded(t.obj, credits)
         THEN Finish(p, 400, [remaining |-> remaining])
         ELSE IF InsufficientBalance(available, credits)
         THEN Finish(p, 400, None)
         ELSE /\ txn' = [txn EXCEPT
                           ![p].pc = "commit",
                           ![p].wr = Recognition(NoId, t.req[1], t.req[2], credits, ThisBucket),
                           ![p].obj.credits_sent = @ + credits,
                           ![p].led = @ \o RecognitionEntries(t.req[1], t.req[2], credits,
                                                             ThisBucket, NoId)]
              /\ UNCHANGED last
      /\ UNCHANGED <<students, clock, dbvars, started>>

\* the pending ledger entries with the id of the row they belong to
Linked(led, recognition_id, redemption_id) ==
  [i \in 1..Len(led) |->
     IF led[i].event_type \in {"RECOGNITION_SENT", "RECOGNITION_RECEIVED"}
     THEN [led[i] EXCEPT !.related_recognition = recognition_id]
     ELSE IF led[i].event_type = "REDEMPTION"
     THEN [led[i] EXCEPT !.related_redemption = redemption_id]
     ELSE led[i]]

\* the quota rows a recognition commits: UPDATE of the sender's row, INSERTs
QuotaWritten(quota, t) ==
  LET sender_id == t.req[1]
      upd == [i \in 1..Len(quota) |->
                IF quota[i].student_id = sender_id /\ quota[i].month_bucket = ThisBucket
                THEN [quota[i] EXCEPT !.credits_sent = t.obj.credits_sent]
                ELSE quota[i]]
      ins == [i \in 1..Len(t.ins) |->
                IF t.ins[i].student_id = sender_id
                THEN [t.ins[i] EXCEPT !.credits_sent = t.obj.credits_sent]
                ELSE t.ins[i]]
  IN  upd \o ins

CommitRecognition(p) ==
  LET t == txn[p]
      recognition_id == Len(recognitions) + 1
      recognition == [t.wr EXCEPT !.recognition_id = recognition_id]
  IN  /\ t.op = "create_recognition" /\ t.pc = "commit"
      /\ recognitions' = Append(recognitions, recognition)
      /\ ledger' = ledger \o Linked(t.led, recognition_id, NoId)
      /\ monthly_quota' = QuotaWritten(monthly_quota, t)
      /\ Finish(p, 201, recognition)
      /\ UNCHANGED <<students, clock, recognition_endorsements, redemptions, started>>

BeginRedemption(p) ==
  /\ txn[p].op = "idle" /\ started < MaxTxns
  /\ \E q \in ValidRedeemRequests :
       txn' = [txn EXCEPT ![p] = [Idle EXCEPT !.op = "redeem", !.pc = "read", !.req = q]]
  /\ started' = started + 1
  /\ UNCHANGED <<students, clock, dbvars, last>>

\* redeem: the two balance queries, the checks, the flushed inserts
ReadRedeemable(p) ==
  LET t == txn[p]
      redeemable == _redeemable_balance(ledger \o t.led, t.req[1])
  IN  /\ t.op = "redeem" /\ t.pc = "read"
      /\ IF NoRedeemable(redeemable) \/ ExceedsRedeemable(t.req[2], redeemable)
         THEN Finish(p, 400, [redeemable |-> redeemable])
         ELSE /\ txn' = [txn EXCEPT
                           ![p].pc = "commit",
                           ![p].obj = redeemable,
                           ![p].wr = Redemption(NoId, t.req[1], t.req[2], "ISSUED"),
                           ![p].led = Append(@, CreditLedger(t.req[1], "REDEMPTION", -t.req[2],
                                                             ThisBucket, NoId, NoId))]
              /\ UNCHANGED last
      /\ UNCHANGED <<students, clock, dbvars, started>>

CommitRedemption(p) ==
  LET t == txn[p]
      redemption_id == Len(redemptions) + 1
      redemption == [t.wr EXCEPT !.redemption_id = redemption_id]
  IN  /\ t.op = "redeem" /\ t.pc = "commit"
      /\ redemptions' = Append(redemptions, redemption)
      /\ ledger' = ledger \o Linked(t.led, NoId, redemption_id)
      /\ Finish(p, 201, [redemption |-> redemption, remaining_balance |-> t.obj - t.req[2],
                         redeemable |-> t.obj])
      /\ UNCHANGED <<students, clock, monthly_quota, recognitions, recognition_endorsements, started>>

BeginEndorsement(p) ==
  /\ txn[p].op = "idle" /\ started < MaxTxns
  /\ \E recognition_id \in 1..Len(recognitions), endorser_id \in Students :
       txn' = [txn EXCEPT ![p] = [Idle EXCEPT !.op = "create_endorsement",
                                              !.pc = "select_recognition",
                                              !.req = <<recognition_id, endorser_id>>]]
  /\ started' = started + 1
  /\ UNCHANGED <<students, clock, dbvars, last>>

\* _ensure_recognition: the recognition row is loaded into the session
SelectRecognition(p) ==
  LET t == txn[p]
  IN  /\ t.op = "create_endorsement" /\ t.pc = "select_recognition"
      /\ txn' = [txn EXCEPT ![p].pc = "select_existing", ![p].obj = recognitions[t.req[1]]]
      /\ UNCHANGED <<students, clock, dbvars, last, started>>

\* the existing-endorsement query; then session.add and the counter increment
SelectExisting(p) ==
  LET t == txn[p]
  IN  /\ t.op = "create_endorsement" /\ t.pc = "select_existing"
      /\ IF existing(recognition_endorsements, t.req[1], t.req[2])
         THEN Finish(p, 400, None)
         ELSE /\ txn' = [txn EXCEPT ![p].pc = "flush",
                                    ![p].obj.endorsement_count = endorsement_count_incremented(@)]
              /\ UNCHANGED last
      /\ UNCHANGED <<students, clock, dbvars, started>>

\* session.flush(): UPDATE of the recognition row, INSERT of the endorsement
FlushEndorsement(p) ==
  LET t == txn[p]
  IN  /\ t.op = "create_endorsement" /\ t.pc = "flush"
      /\ ~LockedByOther(p, RecognitionKey(t.req[1]))
      /\ ~InsertedByOther(p, EndorsementKey(t.req[1], t.req[2]))
      /\ IF recognition_endorsements_unique(recognition_endorsements, t.req[1], t.req[2])
         THEN /\ txn' = [txn EXCEPT ![p].pc = "commit",
                                    ![p].lck = @ \cup {RecognitionKey(t.req[1])},
                                    ![p].wr = RecognitionEndorsement(t.req[1], t.req[2])]
              /\ UNCHANGED last
         ELSE Finish(p, 500, "IntegrityError")
      /\ UNCHANGED <<students, clock, dbvars, started>>

CommitEndorsement(p) ==
  LET t == txn[p]
  IN  /\ t.op = "create_endorsement" /\ t.pc = "commit"
      /\ recognition_endorsements' = Append(recognition_endorsements, t.wr)
      /\ recognitions' = [recognitions EXCEPT
                            ![t.req[1]].endorsement_count = t.obj.endorsement_count]
      /\ Finish(p, 201, t.wr)
      /\ UNCHANGED <<students, clock, ledger, monthly_quota, redemptions, started>>

(* ------------------------------------------------------------------ *)
(* The reset job as a transaction among the request transactions: one   *)
(* step per student of the loop, nothing is flushed before the commit.  *)
(* ------------------------------------------------------------------ *)
\* SELECT ... FOR UPDATE SKIP LOCKED: the committed quota rows, without the rows
\* of the student (current and prior bucket) that another transaction has locked
QuotaSeen(p, student_id) ==
  SelectSeq(monthly_quota, LAMBDA row :
     ~( /\ row.student_id = student_id
        /\ row.month_bucket \in {ThisBucket, previous_month_bucket(ThisBucket)}
        /\ LockedByOther(p, QuotaKey(row.student_id, row.month_bucket)) ))

\* the row locks the loop body takes: the current row when the SELECT returns
\* it, the prior row too unless the student is skipped as already reset
LocksTaken(seen, student_id) ==
  LET cpos == QuotaPos(seen, student_id, ThisBucket)
      ppos == QuotaPos(seen, student_id, previous_month_bucket(ThisBucket))
      skipped == cpos # 0 /\ AlreadyReset(seen[cpos], ThisBucket)
  IN  (IF cpos # 0 THEN {QuotaKey(student_id, ThisBucket)} ELSE {})
      \cup (IF ppos # 0 /\ ~skipped
            THEN {QuotaKey(student_id, previous_month_bucket(ThisBucket))} ELSE {})

\* keys of the job's new quota rows that another transaction has inserted and
\* not yet committed: the INSERT of the flush waits for that transaction
BlockedInserts(p) ==
  {key \in {QuotaKey(txn[p].ins[i].student_id, txn[p].ins[i].month_bucket) :
               i \in 1..Len(txn[p].ins)} : InsertedByOther(p, key)}

\* students whose new quota row collides with a committed row
Colliding(t) ==
  {t.ins[i].student_id : i \in
     {j \in 1..Len(t.ins) :
        ~monthly_quota_unique(monthly_quota, t.ins[j].student_id, t.ins[j].month_bucket)}}

\* the quota table after the job's UPDATEs and INSERTs
ResetWritten(quota, t) ==
  [i \in 1..Len(quota) |->
     IF \E j \in 1..Len(t.wr) : /\ t.wr[j].student_id = quota[i].student_id
                                /\ t.wr[j].month_bucket = quota[i].month_bucket
     THEN LET j == CHOOSE k \in 1..Len(t.wr) : /\ t.wr[k].student_id = quota[i].student_id
                                               /\ t.wr[k].month_bucket = quota[i].month_bucket
          IN  t.wr[j]
     ELSE quota[i]] \o t.ins

\* _execute_monthly_reset / run_reset_once: a session is opened
BeginReset(p) ==
  /\ txn[p].op = "idle" /\ started < MaxTxns
  /\ txn' = [txn EXCEPT ![p] = [Idle EXCEPT
                !.op = "run_monthly_reset", !.pc = "loop", !.req = <<Now(1)>>,
                !.obj = [todo |-> students, summary |-> EmptySummary,
                         students |-> [s \in students |-> Skipped]]]]
  /\ started' = started + 1
  /\ UNCHANGED <<students, clock, dbvars, last>>

\* one pass of the loop body, for any student not yet visited
ProcessStudent(p, student_id) ==
  LET t    == txn[p]
      seen == QuotaSeen(p, student_id)
      r    == ResetStudent([DB EXCEPT !.monthly_quota = seen], student_id, Now(1))
      old  == {seen[i] : i \in 1..Len(seen)}
      upd  == SelectSeq(SubSeq(r.db.monthly_quota, 1, Len(seen)), LAMBDA row : row \notin old)
      ins  == SubSeq(r.db.monthly_quota, Len(seen) + 1, Len(r.db.monthly_quota))
      led  == SubSeq(r.db.ledger, Len(ledger) + 1, Len(r.db.ledger))
      summary == summary_added(t.obj.summary, r.student)
  IN  /\ t.op = "run_monthly_reset" /\ t.pc = "loop"
      /\ student_id \in t.obj.todo
      /\ txn' = [txn EXCEPT
                   ![p].lck = @ \cup LocksTaken(seen, student_id),
                   ![p].wr  = @ \o upd,
                   ![p].ins = @ \o ins,
                   ![p].led = @ \o led,
                   ![p].obj = [todo |-> t.obj.todo \ {student_id},
                               summary |-> summary,
                               students |-> [t.obj.students EXCEPT ![student_id] = r.student]],
                   ![p].pc = IF t.obj.todo = {student_id} THEN "commit" ELSE "loop"]
      /\ UNCHANGED <<students, clock, dbvars, last, started>>

\* for student_id in student_ids: the rows come back in no particular order
VisitStudent(p) ==
  \E student_id \in students : ProcessStudent(p, student_id)

\* session.commit(): the flush sends every UPDATE and INSERT of the run, an
\* IntegrityError rolls the whole run back
CommitReset(p) ==
  LET t == txn[p]
  IN  /\ t.op = "run_monthly_reset" /\ t.pc = "commit"
      /\ BlockedInserts(p) = {}
      /\ IF Colliding(t) = {}
         THEN /\ monthly_quota' = ResetWritten(monthly_quota, t)
              /\ ledger' = ledger \o t.led
              /\ Finish(p, 200, [summary |-> t.obj.summary, students |-> t.obj.students])
         ELSE /\ UNCHANGED <<monthly_quota, ledger>>
              /\ Finish(p, 500, [error |-> "IntegrityError", failed |-> Colliding(t),
                                 students |-> t.obj.students])
      /\ UNCHANGED <<students, clock, recognitions, recognition_endorsements, redemptions, started>>

\* the month changes while no transaction is open
MonthTurns ==
  /\ \A p \in Procs : txn[p].op = "idle"
  /\ AdvanceMonth

\* the key a blocked statement waits for, None when the statement can run
WaitsFor(p) ==
  LET t == txn[p]
  IN  IF t.op = "create_recognition" /\ t.pc = "select"
         /\ QuotaPos(monthly_quota, Who(t), ThisBucket) # 0
         /\ ForUpdateWaits(p, QuotaKey(Who(t), ThisBucket))
      THEN QuotaKey(Who(t), ThisBucket)
      ELSE IF t.op = "create_recognition" /\ t.pc = "insert"
              /\ InsertedByOther(p, QuotaKey(Who(t), ThisBucket))
      THEN QuotaKey(Who(t), ThisBucket)
      ELSE IF t.op = "run_monthly_reset" /\ t.pc = "commit" /\ BlockedInserts(p) # {}
      THEN CHOOSE key \in BlockedInserts(p) : TRUE
      ELSE None

Holds(q, key) == key \in txn[q].lck \cup PendingKeys(txn[q])

\* PostgreSQL's deadlock detector aborts a transaction of a wait cycle
DeadlockAbort(p) ==
  /\ WaitsFor(p) # None
  /\ \E q \in Procs \ {p} :
       /\ Holds(q, WaitsFor(p))
       /\ WaitsFor(q) # None
       /\ Holds(p, WaitsFor(q))
  /\ Finish(p, 500, "DeadlockDetected")
  /\ UNCHANGED <<students, clock, dbvars, started>>

ConcNext ==
  \E p \in Procs :
    \/ BeginRecognition(p)
    \/ SelectQuotaForUpdate(p)
    \/ InsertQuota(p)
    \/ SeedMonthlyReset(p)
    \/ CheckAndWrite(p)
    \/ CommitRecognition(p)
    \/ BeginRedemption(p)
    \/ ReadRedeemable(p)
    \/ CommitRedemption(p)
    \/ BeginEndorsement(p)
    \/ SelectRecognition(p)
    \/ SelectExisting(p)
    \/ FlushEndorsement(p)
    \/ CommitEndorsement(p)
    \/ DeadlockAbort(p)

ConcSpec == Init /\ [][ConcNext]_vars

\* recognition requests and runs of the reset job, concurrently, over two months
JobNext ==
  \/ MonthTurns
  \/ \E p \in Procs :
       \/ BeginRecognition(p)
       \/ SelectQuotaForUpdate(p)
       \/ InsertQuota(p)
       \/ SeedMonthlyReset(p)
       \/ CheckAndWrite(p)
       \/ CommitRecognition(p)
       \/ BeginReset(p)
       \/ VisitStudent(p)
       \/ CommitReset(p)
       \/ DeadlockAbort(p)

JobSpec == Init /\ [][JobNext]_vars

(* ------------------------------------------------------------------ *)
(* Quantities the claims are stated in                                 *)
(* ------------------------------------------------------------------ *)
\* total balance: the sum of all ledger deltas of a student
TotalBalance(s) ==
  SumDelta(SelectSeq(ledger, LAMBDA e : e.student_id = s))

\* redeemable pool: the deltas of the four redeemable kinds
RedeemableKinds ==
  {"RECOGNITION_RECEIVED", "CARRY_FORWARD", "REDEMPTION", "CARRY_FORWARD_EXPIRED"}

RedeemablePool(s) ==
  SumDelta(SelectSeq(ledger, LAMBDA e : e.student_id = s /\ e.event_type \in RedeemableKinds))

\* credits a student sent in a month: absolute deltas of RECOGNITION_SENT
SentInMonth(s, b) ==
  0 - SumDelta(SelectSeq(ledger, LAMBDA e :
        e.student_id = s /\ e.month_bucket = b /\ e.event_type = "RECOGNITION_SENT"))

Buckets == {ledger[i].month_bucket : i \in 1..Len(ledger)}

\* credits_sent of the quota row of (s, b) in a quota table, 0 when there is none
CreditsSentIn(quota, s, b) ==
  IF QuotaPos(quota, s, b) = 0 THEN 0 ELSE quota[QuotaPos(quota, s, b)].credits_sent

\* number of endorsement rows of a table that reference a recognition
EndorsementRows(rows, recognition_id) ==
  Cardinality({i \in 1..Len(rows) : rows[i].recognition_id = recognition_id})

\* the endorsement requests: every recognition id in use and one unknown id
EndorseRequests == (1..(Len(recognitions) + 1)) \X StudentIds

\* positions of the ledger entries of a kind linked to a recognition
EntriesOf(led, event_type, recognition_id) ==
  {i \in 1..Len(led) : led[i].event_type = event_type
                       /\ led[i].related_recognition = recognition_id}

\* number of committed ledger entries of a kind for (student, bucket)
EntriesIn(s, b, event_type) ==
  Cardinality({i \in 1..Len(ledger) : /\ ledger[i].student_id = s
                                      /\ ledger[i].month_bucket = b
                                      /\ ledger[i].event_type = event_type})

(* ------------------------------------------------------------------ *)
(* Claims                                                              *)
(* ------------------------------------------------------------------ *)

\* C1: every student's total balance (sum of all their ledger deltas) is >= 0
\* in every state reachable by recognitions, redemptions and reset runs.
C1_BalanceNeverNegative ==
  \A s \in Students : TotalBalance(s) >= 0

\* C2: for every student and month bucket, the credits sent in that month
\* (RECOGNITION_SENT entries of the bucket) never exceed the cap of 100.
C2_SentWithinMonthlyCap ==
  \A s \in Students : \A b \in Buckets : SentInMonth(s, b) <= DefaultSendLimit

\* C3: every committed quota row has 0 <= credits_sent <= send_limit; a transfer
\* with credits_sent + credits > send_limit is rejected and leaves the quota
\* table alone, and an accepted transfer raises the sender's credits_sent by
\* exactly the credits transferred.
C3_QuotaRowsWithinLimit ==
  \A i \in 1..Len(monthly_quota) :
     /\ 0 <= monthly_quota[i].credits_sent
     /\ monthly_quota[i].credits_sent <= monthly_quota[i].send_limit

C3_SendHandled ==
  \A q \in SendRequests \ InvalidSendRequests :
     LET r    == create_recognition(DB, q[1], q[2], q[3], Now(1))
         sent == CreditsSentIn(monthly_quota, q[1], ThisBucket)
     IN  /\ sent + q[3] > DefaultSendLimit => r.status = 400
         /\ r.status = 201 =>
               CreditsSentIn(r.db.monthly_quota, q[1], ThisBucket) = sent + q[3]

C3_CreditsSentWithinLimit ==
  C3_QuotaRowsWithinLimit /\ C3_SendHandled

C3_Witness ==
  /\ last.op = "create_recognition"
  /\ CreditsSentIn(monthly_quota, last.args[1], ThisBucket) = 90
  /\ create_recognition(DB, last.args[1], last.args[2], 30, Now(1)).status = 400

\* C4: a redemption executed after the previous one has finished succeeds only
\* if the redeemable pool is > 0 and the requested credits (> 0) are within
\* it, so the pool directly after a successful redemption is >= 0.
C4_Redeemed ==
  (last.op = "redeem" /\ last.status = 201) =>
     LET student_id == last.args[1]
         credits    == last.args[2]
         before     == RedeemablePool(student_id) + credits
     IN  /\ credits > 0
         /\ before > 0
         /\ credits <= before
         /\ last.ret.redeemable = before
         /\ RedeemablePool(student_id) >= 0

C4_RedeemHandled ==
  \A q \in RedeemRequests :
     LET r == redeem(DB, q[1], q[2], Now(1))
     IN  r.status = 201 =>
           /\ q[2] > 0
           /\ RedeemablePool(q[1]) > 0
           /\ q[2] <= RedeemablePool(q[1])
           /\ SumDelta(SelectSeq(r.db.ledger, LAMBDA e :
                 e.student_id = q[1] /\ e.event_type \in RedeemableKinds)) >= 0

C4_RedeemKeepsPoolNonNegative == C4_Redeemed /\ C4_RedeemHandled

C4_Witness ==
  /\ last.op = "redeem" /\ last.status = 201
  /\ RedeemablePool(last.args[1]) = 0
  /\ redeem(DB, last.args[1], 30, Now(1)).status = 400

\* C7: a second reset run in the same month, with no request in between,
\* skips every student: no ledger entry is added, no quota row changes and
\* the summary reports students_processed = 0.
C7_SecondRun ==
  ( /\ ExecuteMonthlyReset
    /\ last.op = "run_monthly_reset"
    /\ month_bucket(last.args[1]) = ThisBucket )
  => /\ ledger' = ledger
     /\ monthly_quota' = monthly_quota
     /\ last'.ret.summary.students_processed = 0

C7_ResetIdempotent == [][C7_SecondRun]_vars

C7_Witness ==
  /\ last.op = "run_monthly_reset"
  /\ last.ret.summary.students_processed = 0
  /\ Len(ledger) > 0
  /\ \A s \in Students : QuotaPos(monthly_quota, s, ThisBucket) # 0

\* C8: the delta of every committed ledger entry has the sign fixed by its
\* kind: SENT, REDEMPTION, CARRY_FORWARD_EXPIRED < 0; RECEIVED, MONTHLY_RESET,
\* CARRY_FORWARD > 0.
C8_DeltaSignFixedByKind ==
  \A i \in 1..Len(ledger) :
     /\ ledger[i].event_type \in CreditEventType
     /\ ledger[i].event_type \in {"RECOGNITION_SENT", "REDEMPTION", "CARRY_FORWARD_EXPIRED"}
           => ledger[i].credits_delta < 0
     /\ ledger[i].event_type \in {"RECOGNITION_RECEIVED", "MONTHLY_RESET", "CARRY_FORWARD"}
           => ledger[i].credits_delta > 0

C8_Witness ==
  \A k \in CreditEventType : \E i \in 1..Len(ledger) : ledger[i].event_type = k

\* C9: carry_forward_credits of every quota row is in [0, 50]; for every
\* student a reset run processed, carry_forward = min(unused, 50),
\* expired = max(unused - 50, 0) and carry_forward + expired = unused.
C9_CarryForwardCapped ==
  /\ \A i \in 1..Len(monthly_quota) :
        /\ monthly_quota[i].carry_forward_credits >= 0
        /\ monthly_quota[i].carry_forward_credits <= 50
  /\ last.op = "run_monthly_reset" =>
       \A s \in Students :
          LET st == last.ret.students[s]
          IN  st.processed =>
                /\ st.unused >= 0
                /\ st.carry_forward = (IF st.unused <= 50 THEN st.unused ELSE 50)
                /\ st.expired_amount = (IF st.unused > 50 THEN st.unused - 50 ELSE 0)
                /\ st.carry_forward + st.expired_amount = st.unused
                /\ monthly_quota[QuotaPos(monthly_quota, s, month_bucket(last.args[1]))].carry_forward_credits
                     = st.carry_forward

C9_Witness ==
  /\ last.op = "run_monthly_reset"
  /\ \E s \in Students :
        /\ last.ret.students[s].processed
        /\ last.ret.students[s].unused = 70
        /\ last.ret.students[s].expired_amount = 20
  /\ \E i \in 1..Len(monthly_quota) : monthly_quota[i].carry_forward_credits = 50


\* C5: under any interleaving of concurrent redeem transactions of a student
\* the committed redemptions never take more than the redeemable pool held:
\* redemptions never drive the pool negative.
C5_ConcurrentRedeemsKeepPool ==
  \A s \in Students : RedeemablePool(s) >= 0

\* C6: concurrent recognitions of one sender in one month are serialized by
\* the lock of the sender's quota row: the cap check of a transaction reads the
\* credits_sent committed last, so what commits stays within send_limit and
\* credits_sent counts every committed send.
C6_CapCheckSeesCommitted ==
  /\ \A p \in Procs :
        (txn[p].op = "create_recognition" /\ txn[p].pc = "checks") =>
           txn[p].obj.credits_sent = CreditsSentIn(monthly_quota, txn[p].req[1], ThisBucket)
  /\ \A i \in 1..Len(monthly_quota) :
        /\ monthly_quota[i].credits_sent <= monthly_quota[i].send_limit
        /\ monthly_quota[i].credits_sent
             = SentInMonth(monthly_quota[i].student_id, monthly_quota[i].month_bucket)

C6_Witness ==
  \E p \in Procs : \E q \in Procs \ {p} :
     /\ txn[p].op = "create_recognition" /\ txn[p].pc = "commit"
     /\ txn[q].op = "create_recognition" /\ txn[q].pc = "select" /\ txn[q].role = "sender"
     /\ txn[q].req[1] = txn[p].req[1]
     /\ WaitsFor(q) = QuotaKey(txn[p].req[1], ThisBucket)
     /\ CreditsSentIn(monthly_quota, txn[p].req[1], ThisBucket) + txn[p].req[3] + txn[q].req[3]
          > DefaultSendLimit

\* C10: for every (recognition id, endorser id) pair at most one endorsement
\* row exists, also when the pair is submitted repeatedly or by concurrent
\* transactions; a request for a pair that already has a committed endorsement
\* is rejected with a rule violation and leaves the endorsement rows and the
\* endorsement_count alone.
C10_AtMostOneRowPerPair ==
  \A i \in 1..Len(recognition_endorsements) : \A j \in 1..Len(recognition_endorsements) :
     (i # j) =>
        \/ recognition_endorsements[i].recognition_id # recognition_endorsements[j].recognition_id
        \/ recognition_endorsements[i].endorser_id # recognition_endorsements[j].endorser_id

C10_DuplicateRejected ==
  \A p \in Procs :
     ( /\ SelectExisting(p)
       /\ \E i \in 1..Len(recognition_endorsements) :
             /\ recognition_endorsements[i].recognition_id = txn[p].req[1]
             /\ recognition_endorsements[i].endorser_id = txn[p].req[2] )
     => /\ last'.op = "create_endorsement" /\ last'.status = 400
        /\ recognition_endorsements' = recognition_endorsements
        /\ recognitions' = recognitions

C10_EndorsementUnique ==
  [](C10_AtMostOneRowPerPair) /\ [][C10_DuplicateRejected]_vars

C10_Witness ==
  /\ Len(recognition_endorsements) = 1
  /\ last.op = "create_endorsement" /\ last.status = 400
  /\ last.args = <<recognition_endorsements[1].recognition_id,
                   recognition_endorsements[1].endorser_id>>
  /\ \E p \in Procs :
        /\ txn[p].op = "create_endorsement" /\ txn[p].pc = "flush"
        /\ txn[p].req = last.args


\* C11: with endorsement requests run one after another, every recognition's
\* endorsement_count equals the number of endorsement rows that reference it:
\* it starts at 0, an accepted endorsement raises it and the rows by exactly 1,
\* a rejected one leaves both alone.
C11_CountMatchesRows ==
  \A id \in 1..Len(recognitions) :
     recognitions[id].endorsement_count = EndorsementRows(recognition_endorsements, id)

C11_EndorsementHandled ==
  \A q \in EndorseRequests :
     LET r == create_endorsement(DB, q[1], q[2])
     IN  IF r.status = 201
         THEN /\ r.db.recognitions[q[1]].endorsement_count
                    = recognitions[q[1]].endorsement_count + 1
              /\ EndorsementRows(r.db.recognition_endorsements, q[1])
                    = EndorsementRows(recognition_endorsements, q[1]) + 1
              /\ \A id \in 1..Len(recognitions) :
                    id # q[1] => r.db.recognitions[id] = recognitions[id]
         ELSE r.db = DB

C11_NewRecognitionStartsAtZero ==
  \A q \in SendRequests :
     LET r == create_recognition(DB, q[1], q[2], q[3], Now(1))
     IN  r.status = 201 => r.ret.endorsement_count = 0

C11_CountEqualsRowsSerially ==
  C11_CountMatchesRows /\ C11_EndorsementHandled /\ C11_NewRecognitionStartsAtZero

C11_Witness ==
  /\ last.op = "create_endorsement" /\ last.status = 201
  /\ recognitions[last.args[1]].endorsement_count = 2
  /\ create_endorsement(DB, last.args[1], last.args[2]).status = 400
  /\ \E id \in 1..Len(recognitions) : recognitions[id].endorsement_count = 0


\* C12: the counter increment is atomic under concurrency: once two different
\* endorsers have committed endorsements of one recognition, from transactions
\* in any interleaving, its endorsement_count is 2 and equals the number of its
\* endorsement rows (no lost update).
C12_NoLostIncrement ==
  \A i \in 1..Len(recognition_endorsements) : \A j \in 1..Len(recognition_endorsements) :
     ( /\ recognition_endorsements[i].recognition_id = recognition_endorsements[j].recognition_id
       /\ recognition_endorsements[i].endorser_id # recognition_endorsements[j].endorser_id )
     => LET id == recognition_endorsements[i].recognition_id
        IN  /\ recognitions[id].endorsement_count >= 2
            /\ recognitions[id].endorsement_count = EndorsementRows(recognition_endorsements, id)


\* C13: in every committed state each recognition row has exactly one
\* RECOGNITION_SENT entry (sender, -credits) and exactly one
\* RECOGNITION_RECEIVED entry (receiver, +credits) linked to it, both with the
\* recognition's month bucket, and every such entry links to an existing
\* recognition row; transactions that fail before commit leave nothing behind.
C13_RecognitionsPairedWithLedger ==
  /\ \A id \in 1..Len(recognitions) :
        LET rec      == recognitions[id]
            sent     == EntriesOf(ledger, "RECOGNITION_SENT", id)
            received == EntriesOf(ledger, "RECOGNITION_RECEIVED", id)
        IN  /\ rec.recognition_id = id
            /\ Cardinality(sent) = 1
            /\ Cardinality(received) = 1
            /\ \A i \in sent :
                  /\ ledger[i].student_id = rec.sender_id
                  /\ ledger[i].credits_delta = 0 - rec.credits_transferred
                  /\ ledger[i].month_bucket = rec.month_bucket
            /\ \A i \in received :
                  /\ ledger[i].student_id = rec.receiver_id
                  /\ ledger[i].credits_delta = rec.credits_transferred
                  /\ ledger[i].month_bucket = rec.month_bucket
  /\ \A i \in 1..Len(ledger) :
        ledger[i].event_type \in {"RECOGNITION_SENT", "RECOGNITION_RECEIVED"}
           => ledger[i].related_recognition \in 1..Len(recognitions)

C13_Witness ==
  /\ Len(recognitions) = 2
  /\ last.op = "create_recognition" /\ last.status \in {400, 500}
  /\ \E p \in Procs :
        /\ txn[p].op = "create_recognition" /\ txn[p].pc = "commit"
        /\ Len(txn[p].led) >= 2


\* C14: a create_recognition, create_endorsement or redeem request that ends
\* with a rule violation (400) or not-found (404) leaves every committed table
\* as it was, also when create_recognition had already created quota rows and
\* MONTHLY_RESET entries before the failing check: no step that changes a
\* committed table is the step of a rejected request.
C14_RejectedRequest ==
  (dbvars' # dbvars) =>
     /\ \A q \in SendRequests :
           LET r == create_recognition(DB, q[1], q[2], q[3], Now(1))
           IN  ~(r.status \in {400, 404} /\ Settle("create_recognition", q, r))
     /\ \A q \in RedeemRequests :
           LET r == redeem(DB, q[1], q[2], Now(1))
           IN  ~(r.status \in {400, 404} /\ Settle("redeem", q, r))
     /\ \A q \in EndorseRequests :
           LET r == create_endorsement(DB, q[1], q[2])
           IN  ~(r.status \in {400, 404} /\ Settle("create_endorsement", q, r))

C14_RejectionLeavesNoTrace == [][C14_RejectedRequest]_vars

C14_Witness ==
  /\ \E q \in SendRequests :
        LET r == create_recognition(DB, q[1], q[2], q[3], Now(1))
        IN  /\ r.status = 400
            /\ Len(r.db.monthly_quota) > Len(monthly_quota)
            /\ Len(r.db.ledger) > Len(ledger)
  /\ \E q \in RedeemRequests : redeem(DB, q[1], q[2], Now(1)).status = 400
  /\ \E q \in EndorseRequests : create_endorsement(DB, q[1], q[2]).status = 400


\* C15: when another transaction holds the lock of a student's current-month
\* quota row while the reset job visits the student, the job skips the student:
\* it prepares no quota row, no quota update and no ledger entry for the
\* student and does not count the student as processed.
C15_LockedStudentStep ==
  \A p \in Procs : \A s \in students :
     ( /\ ProcessStudent(p, s)
       /\ QuotaPos(monthly_quota, s, ThisBucket) # 0
       /\ LockedByOther(p, QuotaKey(s, ThisBucket)) )
     => /\ txn'[p].ins = txn[p].ins
        /\ txn'[p].wr = txn[p].wr
        /\ txn'[p].led = txn[p].led
        /\ ~txn'[p].obj.students[s].processed

C15_LockedStudentSkipped == [][C15_LockedStudentStep]_vars


\* C16: the reset job handles each student in a transaction of its own: when a
\* run fails on one student, the quota update of every other student the run
\* processed is committed all the same.
C16_OtherStudentsCommitted ==
  (last.op = "run_monthly_reset" /\ last.status = 500) =>
     \A s \in students :
        (last.ret.students[s].processed /\ s \notin last.ret.failed) =>
           LET pos == QuotaPos(monthly_quota, s, month_bucket(last.args[1]))
           IN  /\ pos # 0
               /\ monthly_quota[pos].reset_at = last.args[1]


\* C17: under any interleaving of concurrent runs of the reset job no student
\* is processed twice for a month: for every (student, month bucket) at most one
\* CARRY_FORWARD_EXPIRED and at most one CARRY_FORWARD entry is committed.
C17_NoDoubleProcessing ==
  \A s \in students : \A b \in Buckets :
     /\ EntriesIn(s, b, "CARRY_FORWARD_EXPIRED") <= 1
     /\ EntriesIn(s, b, "CARRY_FORWARD") <= 1

C17_Witness ==
  /\ last.op = "run_monthly_reset" /\ last.status = 500
  /\ \E s \in students :
        /\ last.ret.students[s].processed
        /\ last.ret.students[s].carry_forward > 0
        /\ EntriesIn(s, month_bucket(last.args[1]), "CARRY_FORWARD") = 1
        /\ EntriesIn(s, month_bucket(last.args[1]), "CARRY_FORWARD_EXPIRED") = 1

\* what a request seeds for a student: the MONTHLY_RESET allowance when the
\* student has no MONTHLY_RESET entry in the bucket yet, else nothing
SeededFor(s, b) == IF reset_exists(ledger, s, b) THEN 0 ELSE MonthlyAllowance

\* the quota rows of a student, in table order
QuotaRowsOf(quota, s) == SelectSeq(quota, LAMBDA row : row.student_id = s)

\* a step that commits a new recognition row
RecognitionCommitted == Len(recognitions') # Len(recognitions)

\* the part of C18 that does not depend on seeding: one new row with
\* endorsement_count 0 in the current bucket, the sender's credits_sent raised
\* by c, the receiver's credits_sent and every other student untouched
C18_RowAndQuota ==
  LET S == last'.args[1]
      R == last'.args[2]
      c == last'.args[3]
      n == Len(recognitions)
      rec == recognitions'[n + 1]
  IN  /\ last'.op = "create_recognition" /\ last'.status = 201
      /\ S # R /\ c \in 1..100
      /\ Len(recognitions') = n + 1
      /\ SubSeq(recognitions', 1, n) = recognitions
      /\ rec = last'.ret
      /\ rec.sender_id = S /\ rec.receiver_id = R /\ rec.credits_transferred = c
      /\ rec.endorsement_count = 0
      /\ rec.month_bucket = ThisBucket
      /\ CreditsSentIn(monthly_quota', S, ThisBucket)
           = CreditsSentIn(monthly_quota, S, ThisBucket) + c
      /\ CreditsSentIn(monthly_quota', R, ThisBucket)
           = CreditsSentIn(monthly_quota, R, ThisBucket)
      /\ \A s \in students \ {S, R} :
            /\ _current_balance(ledger', s) = _current_balance(ledger, s)
            /\ QuotaRowsOf(monthly_quota', s) = QuotaRowsOf(monthly_quota, s)

\* C18 as amended: a successful create_recognition of c credits from S to a
\* distinct R creates exactly one recognition row (endorsement_count 0, current
\* bucket), raises S's current-month credits_sent by c, leaves R's credits_sent
\* and every other student's balance and quota rows unchanged, and changes S's
\* total balance by -c and R's by +c on top of the 100-credit MONTHLY_RESET
\* entry the request seeds for a party that has none in the current month.
C18_CommittedStep ==
  RecognitionCommitted =>
     LET S == last'.args[1]
         R == last'.args[2]
         c == last'.args[3]
     IN  /\ C18_RowAndQuota
         /\ _current_balance(ledger', S)
              = _current_balance(ledger, S) + SeededFor(S, ThisBucket) - c
         /\ _current_balance(ledger', R)
              = _current_balance(ledger, R) + SeededFor(R, ThisBucket) + c

C18_RecognitionEffects == [][C18_CommittedStep]_vars

\* C18 as stated: the sender's total balance is lowered by exactly c and the
\* receiver's raised by exactly c by every successful create_recognition.
C18_StatedStep ==
  RecognitionCommitted =>
     LET S == last'.args[1]
         R == last'.args[2]
         c == last'.args[3]
     IN  /\ C18_RowAndQuota
         /\ _current_balance(ledger', S) = _current_balance(ledger, S) - c
         /\ _current_balance(ledger', R) = _current_balance(ledger, R) + c

C18_BalancesMoveByExactlyC == [][C18_StatedStep]_vars

\* a second recognition between two students is committed while the third
\* student, no party of it, holds credits and a quota row of the month
C18_Witness ==
  /\ last.op = "create_recognition" /\ last.status = 201
  /\ Len(recognitions) >= 2
  /\ ThirdStudent \in students \ {last.args[1], last.args[2]}
  /\ TotalBalance(ThirdStudent) > MonthlyAllowance
  /\ QuotaPos(monthly_quota, ThirdStudent, ThisBucket) # 0
  /\ CreditsSentIn(monthly_quota, last.args[1], ThisBucket) > last.args[3]
  /\ TotalBalance(last.args[1]) < MonthlyAllowance

\* send_limit of the quota row of (s, b) in a quota table, the column default
\* when there is no row yet
SendLimitIn(quota, s, b) ==
  IF QuotaPos(quota, s, b) = 0 THEN DefaultSendLimit ELSE quota[QuotaPos(quota, s, b)].send_limit

\* a request between two existing, distinct students that would take the
\* sender's credits_sent of the month over the send limit
ExceedsCap(q) ==
  /\ q[1] # q[2]
  /\ q[1] \in students /\ q[2] \in students
  /\ CreditsSentIn(monthly_quota, q[1], ThisBucket) + q[3]
       > SendLimitIn(monthly_quota, q[1], ThisBucket)

\* the rejection and what it reports
C19_RemainingReported ==
  \A q \in CapRequests :
     LET r == create_recognition(DB, q[1], q[2], q[3], Now(1))
     IN  ExceedsCap(q) =>
           /\ r.status = 400
           /\ r.detail = "Monthly sending limit exceeded."
           /\ r.ret.remaining = SendLimitIn(monthly_quota, q[1], ThisBucket)
                                  - CreditsSentIn(monthly_quota, q[1], ThisBucket)

\* no step that changes a table is the outcome of a request over the cap
C19_RejectedStep ==
  (dbvars' # dbvars) =>
     \A q \in CapRequests :
        ExceedsCap(q) =>
          ~Settle("create_recognition", q, create_recognition(DB, q[1], q[2], q[3], Now(1)))

\* C19: a recognition that would exceed the sender's monthly cap is rejected
\* with a rule violation reporting the remaining allowance send_limit -
\* credits_sent, and the sender's credits_sent and ledger (all tables) are
\* unchanged by it.
C19_CapRejectionReportsRemaining == []C19_RemainingReported /\ [][C19_RejectedStep]_vars

\* the sender has sent 80 this month and a request of 30 more, to a receiver
\* not yet seen this month, is rejected reporting 20
C19_Witness ==
  /\ last.op = "create_recognition" /\ last.args[3] = 80
  /\ CreditsSentIn(monthly_quota, last.args[1], ThisBucket) = 80
  /\ QuotaPos(monthly_quota, ThirdStudent, ThisBucket) = 0
  /\ LET r == create_recognition(DB, last.args[1], ThirdStudent, 30, Now(1))
     IN  /\ r.status = 400
         /\ r.ret = [remaining |-> 20]
         /\ r.db.monthly_quota # monthly_quota

\* a step that commits a new redemption row
RedemptionCommitted == Len(redemptions') # Len(redemptions)

C20_CommittedStep ==
  RedemptionCommitted =>
     LET student_id == last'.args[1]
         c == last'.args[2]
         n == Len(redemptions)
         m == Len(ledger)
         redemption == redemptions'[n + 1]
         entry == ledger'[m + 1]
     IN  /\ last'.op = "redeem" /\ last'.status = 201
         /\ Len(redemptions') = n + 1
         /\ SubSeq(redemptions', 1, n) = redemptions
         /\ redemption = last'.ret.redemption
         /\ redemption.student_id = student_id
         /\ redemption.credits_redeemed = c
         /\ redemption.status = "ISSUED"
         /\ redemption.voucher_value = 5 * c
         /\ Len(ledger') = m + 1
         /\ SubSeq(ledger', 1, m) = ledger
         /\ entry.student_id = student_id
         /\ entry.event_type = "REDEMPTION"
         /\ entry.credits_delta = 0 - c
         /\ entry.related_redemption = redemption.redemption_id
         /\ entry.related_recognition = NoId
         /\ entry.month_bucket = ThisBucket
         /\ monthly_quota' = monthly_quota
         /\ last'.ret.remaining_balance = _redeemable_balance(ledger, student_id) - c
         /\ last'.ret.remaining_balance = _redeemable_balance(ledger', student_id)

\* C20: a successful redeem of c credits (one request after another) creates
\* exactly one Redemption row with status ISSUED and voucher_value = 5 * c,
\* appends exactly one REDEMPTION ledger entry with delta -c, linked to that
\* redemption and tagged with the current month bucket, changes no quota row,
\* and returns remaining balance = redeemable balance before - c = redeemable
\* balance recomputed from the ledger after the redemption.
C20_RedemptionEffects == [][C20_CommittedStep]_vars

\* in the month after the start, 100 of 130 redeemable credits were redeemed:
\* voucher of 500, 30 remaining
C20_Witness ==
  /\ last.op = "redeem" /\ last.status = 201
  /\ last.args[2] = 100
  /\ last.ret.redemption.voucher_value = 500
  /\ last.ret.remaining_balance = 30
  /\ clock # StartMonth
  /\ ledger[Len(ledger)].event_type = "REDEMPTION"
  /\ ledger[Len(ledger)].month_bucket = ThisBucket

\* the entries a step appends to the ledger for a student
AppendedFor(s) ==
  SelectSeq(SubSeq(ledger', Len(ledger) + 1, Len(ledger')), LAMBDA e : e.student_id = s)

\* the deltas of the appended entries of a kind, as a sequence
AppendedDeltas(s, event_type) ==
  LET rows == SelectSeq(AppendedFor(s), LAMBDA e : e.event_type = event_type)
  IN  [i \in 1..Len(rows) |-> rows[i].credits_delta]

\* prior-month unused amount of a student as the ledger stands: MONTHLY_RESET
\* plus CARRY_FORWARD minus sends of the month before the current one, >= 0
PriorUnused(s) == Unused(ledger, s, previous_month_bucket(ThisBucket))

C21_ResetStep ==
  ExecuteMonthlyReset =>
     /\ SubSeq(ledger', 1, Len(ledger)) = ledger
     /\ \A s \in students :
          LET u == PriorUnused(s)
              rows == AppendedFor(s)
          IN  IF last'.ret.students[s].processed
              THEN /\ last'.ret.students[s].unused = u
                   /\ \A i \in 1..Len(rows) :
                         /\ rows[i].month_bucket = ThisBucket
                         /\ rows[i].event_type
                              \in {"MONTHLY_RESET", "CARRY_FORWARD_EXPIRED", "CARRY_FORWARD"}
                   /\ AppendedDeltas(s, "MONTHLY_RESET")
                        = (IF reset_exists(ledger, s, ThisBucket) THEN <<>> ELSE <<100>>)
                   /\ AppendedDeltas(s, "CARRY_FORWARD_EXPIRED")
                        = (IF u > 0 THEN <<0 - u>> ELSE <<>>)
                   /\ AppendedDeltas(s, "CARRY_FORWARD")
                        = (IF u > 0 THEN <<IF u < 50 THEN u ELSE 50>> ELSE <<>>)
              ELSE rows = <<>>

\* C21: when run_monthly_reset processes a student whose prior-month unused
\* amount is u, the entries it appends for the current bucket are
\* MONTHLY_RESET +100 iff none exists yet for that student and bucket,
\* CARRY_FORWARD_EXPIRED -u iff u > 0, CARRY_FORWARD +min(u, 50) iff u > 0,
\* and nothing else; for a student it skips it appends nothing.
C21_ResetAppendsExactly == [][C21_ResetStep]_vars

\* a run processed a student with unused 70 whose MONTHLY_RESET entry of the
\* month had been seeded by a recognition before the run
C21_Witness ==
  /\ last.op = "run_monthly_reset"
  /\ \E s \in students :
        /\ last.ret.students[s].processed
        /\ last.ret.students[s].unused = 70
        /\ EntriesIn(s, ThisBucket, "CARRY_FORWARD_EXPIRED") = 1
        /\ EntriesIn(s, ThisBucket, "CARRY_FORWARD") = 1
        /\ \E i \in 1..Len(ledger) :
              /\ ledger[i].student_id = s /\ ledger[i].month_bucket = ThisBucket
              /\ ledger[i].event_type = "MONTHLY_RESET"
              /\ \E j \in (i + 1)..Len(ledger) :
                    /\ ledger[j].event_type = "RECOGNITION_SENT"
                    /\ ledger[j].month_bucket = ThisBucket

\* the change of a student's redeemable balance over a step
RedeemableChange(s) == _redeemable_balance(ledger', s) - _redeemable_balance(ledger, s)

\* min(u, 50)
CappedAt50(u) == IF u < 50 THEN u ELSE 50

\* C22: the net gain of a student's redeemable balance caused by a monthly
\* reset equals the carry-forward granted: after the reset processed a student
\* with prior-month unused u, the redeemable balance is higher than before by
\* exactly min(u, 50).
C22_ResetStep ==
  ExecuteMonthlyReset =>
     \A s \in students :
        last'.ret.students[s].processed =>
           RedeemableChange(s) = CappedAt50(PriorUnused(s))

C22_ResetGainsCarryForward == [][C22_ResetStep]_vars

\* C23: the net effect of a monthly reset on a student's redeemable balance is
\* -expired: after the reset processed a student with prior-month unused u the
\* redeemable balance has changed by exactly -(u - min(u, 50)); a skipped
\* student's redeemable balance is unchanged.
C23_ResetStep ==
  ExecuteMonthlyReset =>
     \A s \in students :
        LET u == PriorUnused(s)
        IN  IF last'.ret.students[s].processed
            THEN /\ RedeemableChange(s) = 0 - (u - CappedAt50(u))
                 /\ last'.ret.students[s].expired_amount = u - CappedAt50(u)
            ELSE RedeemableChange(s) = 0

C23_ResetNetIsMinusExpired == [][C23_ResetStep]_vars

\* a run processed a student with unused 70: 20 expired, and the redeemable
\* balance computed from the ledger stands 20 below the credits received
C23_Witness ==
  /\ last.op = "run_monthly_reset"
  /\ \E s \in students :
        /\ last.ret.students[s].processed
        /\ last.ret.students[s].unused = 70
        /\ last.ret.students[s].expired_amount = 20
        /\ _redeemable_balance(ledger, s)
             = SumOfKinds(ledger, s, {"RECOGNITION_RECEIVED", "REDEMPTION"}) - 20

\* C24: the redeemable balance is a subset of the total balance: in every
\* state reachable by recognitions, redemptions and monthly resets every
\* student satisfies 0 <= redeemable balance <= total balance.
C24_RedeemableWithinTotal ==
  \A s \in students :
     /\ 0 <= _redeemable_balance(ledger, s)
     /\ _redeemable_balance(ledger, s) <= _current_balance(ledger, s)

\* every committed entry is still there, unchanged and in place, after a step
LedgerExtended ==
  /\ Len(ledger') >= Len(ledger)
  /\ SubSeq(ledger', 1, Len(ledger)) = ledger

\* an endorsement, accepted or not, hands back the ledger it found
EndorsementKeepsLedger ==
  \A q \in EndorseRequests : create_endorsement(DB, q[1], q[2]).db.ledger = ledger

\* C25: the ledger is append-only: no operation (create_recognition,
\* create_endorsement, redeem, run_monthly_reset) ever changes or removes a
\* committed ledger entry; the ledger of any later state is the earlier
\* ledger plus newly appended entries.
C25_LedgerAppendOnly == []EndorsementKeepsLedger /\ [][LedgerExtended]_vars

\* recognitions, a redemption and a reset of the second month have all
\* written to the ledger, and a recognition is there to be endorsed
C25_Witness ==
  /\ clock # StartMonth
  /\ Len(recognitions) >= 2
  /\ \E i \in 1..Len(ledger) : ledger[i].event_type = "REDEMPTION"
  /\ \E i \in 1..Len(ledger) :
        ledger[i].event_type = "CARRY_FORWARD" /\ ledger[i].month_bucket = ThisBucket
  /\ \E i \in 1..Len(ledger) :
        ledger[i].event_type = "RECOGNITION_SENT" /\ ledger[i].month_bucket = ThisBucket
  /\ create_endorsement(DB, 1, "s2").status = 201

\* a student the current month has not started for: no quota row and no
\* MONTHLY_RESET entry of the current bucket
MonthNotStarted(s) ==
  /\ QuotaPos(monthly_quota, s, ThisBucket) = 0
  /\ ~reset_exists(ledger, s, ThisBucket)

\* C26: a student's first send of a month does not depend on the reset job
\* having run: if no quota row and no MONTHLY_RESET entry exist for the
\* current month and the sender's total balance is >= 0, create_recognition
\* to an existing, distinct receiver succeeds for any amount in 1..100; it
\* creates the quota row (send_limit 100, credits_sent = the amount sent) and
\* seeds exactly one MONTHLY_RESET +100 for the sender.
C26_FirstSendNotBlocked ==
  \A q \in ValidSendRequests :
     LET r == create_recognition(DB, q[1], q[2], q[3], Now(1))
         pos == QuotaPos(r.db.monthly_quota, q[1], ThisBucket)
         seeded == SelectSeq(r.db.ledger, LAMBDA e :
                     /\ e.student_id = q[1] /\ e.month_bucket = ThisBucket
                     /\ e.event_type = "MONTHLY_RESET")
     IN  ( /\ MonthNotStarted(q[1])
           /\ _current_balance(ledger, q[1]) >= 0
           /\ q[3] \in 1..100 )
         => /\ r.status = 201
            /\ pos # 0
            /\ r.db.monthly_quota[pos].send_limit = 100
            /\ r.db.monthly_quota[pos].credits_sent = q[3]
            /\ r.db.monthly_quota[pos].reset_at = None
            /\ Len(seeded) = 1
            /\ seeded[1].credits_delta = 100

\* in the second month, with no reset run so far, a student who spent the
\* whole allowance of the first month has sent 100 again
C26_Witness ==
  /\ clock # StartMonth
  /\ last.op = "create_recognition" /\ last.status = 201 /\ last.args[3] = 100
  /\ \A i \in 1..Len(monthly_quota) : monthly_quota[i].reset_at = None
  /\ SentInMonth(last.args[1], previous_month_bucket(ThisBucket)) = 100
  /\ SentInMonth(last.args[1], ThisBucket) = 100
  /\ Len(recognitions) = 2

\* C27: quota creation is protected against concurrent first-touch: when two
\* transactions concurrently touch the same (student, month) without a quota
\* row, one waits and reuses the row the other created, so exactly one quota
\* row exists afterwards and no transaction fails on the uniqueness
\* constraint monthly_quota_unique.
C27_FirstTouchNeverCollides ==
  /\ \A s \in students : Cardinality(QuotaAt(monthly_quota, s, ThisBucket)) <= 1
  /\ ~(last.op = "create_recognition" /\ last.status = 500 /\ last.ret = "IntegrityError")

\* C28: for every (student, month bucket) at most one MONTHLY_RESET entry is
\* ever committed, with delta +100, under any order and interleaving of lazy
\* seeding by create_recognition (as sender or receiver) and run_monthly_reset.
C28_OneMonthlyResetPerMonth ==
  /\ \A s \in students : \A b \in Buckets : EntriesIn(s, b, "MONTHLY_RESET") <= 1
  /\ \A i \in 1..Len(ledger) :
        ledger[i].event_type = "MONTHLY_RESET" => ledger[i].credits_delta = 100

\* a reset run committed for a student whose MONTHLY_RESET entry of the month
\* a recognition had seeded, and for one it seeded itself in the month before
C28_Witness ==
  /\ clock # StartMonth
  /\ last.op = "run_monthly_reset" /\ last.status = 200
  /\ \E s \in students :
        /\ last.ret.students[s].processed
        /\ EntriesIn(s, ThisBucket, "MONTHLY_RESET") = 1
        /\ EntriesIn(s, ThisBucket, "CARRY_FORWARD") = 1
        /\ \E i \in 1..Len(ledger) : \E j \in 1..Len(ledger) :
              /\ i < j
              /\ ledger[i].student_id = s /\ ledger[i].month_bucket = ThisBucket
              /\ ledger[i].event_type = "MONTHLY_RESET"
              /\ ledger[j].student_id = s /\ ledger[j].month_bucket = ThisBucket
              /\ ledger[j].event_type \in {"RECOGNITION_SENT", "RECOGNITION_RECEIVED"}

\* a transaction that still has a rule check to evaluate
ChecksPending(t) ==
  \/ t.op = "create_recognition" /\ t.pc \in {"select", "insert", "seed", "checks"}
  \/ t.op = "redeem" /\ t.pc = "read"
  \/ t.op = "create_endorsement" /\ t.pc \in {"select_recognition", "select_existing"}

\* a transaction that has written nothing: no flushed insert, no ledger entry,
\* no recognition, endorsement or redemption row
NoWrites(t) == t.ins = <<>> /\ t.led = <<>> /\ t.wr = None

\* the only writes so far are the lazy month start of the two parties: fresh
\* quota rows of the current month and MONTHLY_RESET +100 entries
OnlyMonthStartWrites(t) ==
  /\ t.op = "create_recognition"
  /\ t.wr = None
  /\ \A i \in 1..Len(t.ins) :
        /\ t.ins[i].student_id \in {t.req[1], t.req[2]}
        /\ t.ins[i].month_bucket = ThisBucket
        /\ t.ins[i].credits_sent = 0
        /\ t.ins[i].send_limit = 100
        /\ t.ins[i].reset_at = None
  /\ \A i \in 1..Len(t.led) :
        /\ t.led[i].student_id \in {t.req[1], t.req[2]}
        /\ t.led[i].event_type = "MONTHLY_RESET"
        /\ t.led[i].credits_delta = 100
        /\ t.led[i].month_bucket = ThisBucket
  /\ t.obj # None => t.obj.credits_sent = CreditsSentIn(monthly_quota, t.req[1], ThisBucket)

\* C29 as stated: in every engine transaction all rule checks are evaluated
\* before the transaction performs its first insert or update of a quota,
\* ledger, recognition, endorsement or redemption row.
C29_ChecksBeforeAnyWrite ==
  \A p \in Procs : ChecksPending(txn[p]) => NoWrites(txn[p])

\* C29 as amended: while a transaction still has a rule check to evaluate it
\* has performed no insert or update, except that create_recognition may
\* already have inserted the current-month quota rows of sender and receiver
\* (defaults) and their MONTHLY_RESET +100 entries; the recognition row, the
\* credits_sent update and the SENT/RECEIVED, REDEMPTION and endorsement
\* writes all come after the checks.
C29_ChecksBeforeEngineWrites ==
  \A p \in Procs :
     ChecksPending(txn[p]) => (NoWrites(txn[p]) \/ OnlyMonthStartWrites(txn[p]))

\* a recognition is about to run its cap and balance checks with two quota
\* rows and two MONTHLY_RESET entries already flushed, while the INSERT of
\* another recognition waits for one of those rows
C29_Witness ==
  \E p \in Procs : \E q \in Procs \ {p} :
     /\ txn[p].op = "create_recognition" /\ txn[p].pc = "checks"
     /\ Len(txn[p].ins) = 2 /\ Len(txn[p].led) = 2
     /\ txn[q].op = "create_recognition" /\ txn[q].pc = "insert"
     /\ WaitsFor(q) # None

\* the sender's total balance as the balance check reads it: the committed
\* ledger plus the MONTHLY_RESET entry the request seeds
BalanceAtCheck(s) == _current_balance(ledger, s) + SeededFor(s, ThisBucket)

\* the current month's sending cap would be exceeded
OverCap(q) ==
  CreditsSentIn(monthly_quota, q[1], ThisBucket) + q[3]
     > SendLimitIn(monthly_quota, q[1], ThisBucket)

\* C30: create_recognition evaluates its checks in the fixed order
\* self-recognition, sender/receiver existence, sending cap, balance, and
\* reports the first that fails: sender = receiver yields the self-recognition
\* violation (400) even when the id does not exist, an unknown sender or
\* receiver yields not-found (404), and when both the cap and the balance
\* check would fail the cap violation is reported.
C30_FirstFailingCheckReported ==
  \A q \in SendRequests :
     LET r == create_recognition(DB, q[1], q[2], q[3], Now(1))
     IN  IF q[1] = q[2]
         THEN r.status = 400 /\ r.detail = "Students cannot recognize themselves."
         ELSE IF q[1] \notin students \/ q[2] \notin students
         THEN r.status = 404 /\ r.detail = "Student not found"
         ELSE IF OverCap(q)
         THEN r.status = 400 /\ r.detail = "Monthly sending limit exceeded."
         ELSE IF BalanceAtCheck(q[1]) < q[3]
         THEN /\ r.status = 400
              /\ r.detail = "Insufficient balance to send the requested credits."
         ELSE r.status = 201

\* after a reset run a sender over the cap and short of balance at once is
\* told about the cap; self-recognition of an unknown id is a 400, an unknown
\* receiver a 404
C30_Witness ==
  /\ last.op = "run_monthly_reset"
  /\ \E s \in Students : \E o \in Students \ {s} :
        /\ OverCap(<<s, o, 100>>)
        /\ ~OverCap(<<s, o, 30>>)
        /\ BalanceAtCheck(s) < 30
        /\ create_recognition(DB, s, o, 100, Now(1)).detail = "Monthly sending limit exceeded."
        /\ create_recognition(DB, s, o, 30, Now(1)).detail
             = "Insufficient balance to send the requested credits."
        /\ create_recognition(DB, UnknownStudent, UnknownStudent, 30, Now(1)).status = 400
        /\ create_recognition(DB, s, UnknownStudent, 30, Now(1)).status = 404

\* C31: redeem rejects with 'no redeemable credits' whenever the student's
\* redeemable balance is <= 0, whatever amount is requested, and with 'exceeds
\* redeemable balance', reporting the redeemable amount, whenever the balance
\* is > 0 and the requested credits exceed it; otherwise it succeeds. After a
\* student redeemed the whole redeemable balance every further redemption is
\* rejected with 'no redeemable credits'.
C31_RedeemRejections ==
  /\ \A q \in ValidRedeemRequests :
        LET r == redeem(DB, q[1], q[2], Now(1))
            pool == RedeemablePool(q[1])
        IN  IF pool <= 0
            THEN r.status = 400 /\ r.detail = "No redeemable credits available."
            ELSE IF q[2] > pool
            THEN /\ r.status = 400
                 /\ r.detail = "Requested credits exceed redeemable balance."
                 /\ r.ret.redeemable = pool
            ELSE r.status = 201
  /\ (last.op = "redeem" /\ last.status = 201 /\ last.ret.remaining_balance = 0) =>
        \A c \in CreditsToRedeem :
           redeem(DB, last.args[1], c, Now(1)).detail = "No redeemable credits available."

\* one student redeemed the whole pool of 30 and is refused any amount; the
\* other holds 30 and is refused 100 with the 30 reported
C31_Witness ==
  /\ last.op = "redeem" /\ last.status = 201 /\ last.args[2] = 30
  /\ last.ret.remaining_balance = 0
  /\ \A c \in CreditsToRedeem :
        redeem(DB, last.args[1], c, Now(1)).detail = "No redeemable credits available."
  /\ \E o \in Students \ {last.args[1]} :
        /\ RedeemablePool(o) = 30
        /\ redeem(DB, o, 100, Now(1)).detail = "Requested credits exceed redeemable balance."
        /\ redeem(DB, o, 100, Now(1)).ret = [redeemable |-> 30]

\* the ledger rows of a student tagged with a bucket
RowsOfMonth(s, b) ==
  SelectSeq(ledger, LAMBDA e : e.student_id = s /\ e.month_bucket = b)

\* what is left of a month's sending allowance: everything booked for the
\* student in the bucket except what was received, redeemed or expired,
\* floored at 0
AllowanceLeft(s, b) ==
  LET all == SumDelta(RowsOfMonth(s, b))
      other == SumDelta(SelectSeq(RowsOfMonth(s, b), LAMBDA e :
                  e.event_type \in {"RECOGNITION_RECEIVED", "REDEMPTION", "CARRY_FORWARD_EXPIRED"}))
  IN  IF all - other < 0 THEN 0 ELSE all - other

C32_ResetStep ==
  ExecuteMonthlyReset =>
     \A s \in students :
        LET prior == previous_month_bucket(month_bucket(last'.args[1]))
        IN  last'.ret.students[s].processed =>
              /\ prior = IF clock[2] = 1 THEN <<clock[1] - 1, 12, 1>>
                                         ELSE <<clock[1], clock[2] - 1, 1>>
              /\ last'.ret.students[s].unused = AllowanceLeft(s, prior)
              /\ last'.ret.students[s].unused >= 0
              /\ RowsOfMonth(s, prior) = <<>> => last'.ret.students[s].unused = 0

\* C32: the reset computes unused for a student as max(0, sum of that
\* student's ledger deltas tagged with the prior month bucket and of kinds
\* MONTHLY_RESET, CARRY_FORWARD, RECOGNITION_SENT only); RECOGNITION_RECEIVED,
\* REDEMPTION and CARRY_FORWARD_EXPIRED entries and entries of other months do
\* not influence it, and a student with no prior-month entries has unused 0.
C32_UnusedFromAllowanceKinds == [][C32_ResetStep]_vars

\* a run of the second month found unused 70 for a student who, in the first
\* month, had also received and redeemed credits, and who has entries of the
\* second month already
C32_Witness ==
  /\ clock # StartMonth
  /\ last.op = "run_monthly_reset"
  /\ \E s \in students :
        LET prior == RowsOfMonth(s, previous_month_bucket(ThisBucket))
        IN  /\ last.ret.students[s].processed
            /\ last.ret.students[s].unused = 70
            /\ \E i \in 1..Len(prior) : prior[i].event_type = "RECOGNITION_RECEIVED"
            /\ \E i \in 1..Len(prior) : prior[i].event_type = "REDEMPTION"
            /\ \E i \in 1..Len(ledger) :
                  /\ ledger[i].student_id = s /\ ledger[i].month_bucket = ThisBucket
                  /\ ledger[i].event_type = "RECOGNITION_RECEIVED"

\* the quota row of (s, b) in a quota table; only used where there is one
QuotaRow(quota, s, b) == quota[QuotaPos(quota, s, b)]

\* the quota rows of a table outside the given buckets of a student, and all
\* rows of the other students
RowsBeside(quota, s, buckets) ==
  SelectSeq(quota, LAMBDA row : ~(row.student_id = s /\ row.month_bucket \in buckets))

C33_ResetStep ==
  ExecuteMonthlyReset =>
     \A s \in students :
        LET now == last'.args[1]
            prior == previous_month_bucket(ThisBucket)
            carry_forward == CappedAt50(AllowanceLeft(s, prior))
        IN  IF last'.ret.students[s].processed
            THEN /\ Cardinality(QuotaAt(monthly_quota', s, ThisBucket)) = 1
                 /\ QuotaRow(monthly_quota', s, ThisBucket)
                      = [student_id |-> s, month_bucket |-> ThisBucket,
                         send_limit |-> 100, credits_sent |-> 0,
                         carry_forward_credits |-> carry_forward,
                         carry_forward_applied |-> (carry_forward > 0),
                         reset_at |-> now]
                 /\ now # None
                 /\ QuotaPos(monthly_quota, s, prior) # 0 =>
                       /\ Cardinality(QuotaAt(monthly_quota', s, prior)) = 1
                       /\ QuotaRow(monthly_quota', s, prior)
                            = [QuotaRow(monthly_quota, s, prior)
                                 EXCEPT !.carry_forward_applied = TRUE]
                 /\ QuotaPos(monthly_quota, s, prior) = 0 =>
                       QuotaPos(monthly_quota', s, prior) = 0
                 /\ RowsBeside(QuotaRowsOf(monthly_quota', s), s, {ThisBucket, prior})
                      = RowsBeside(QuotaRowsOf(monthly_quota, s), s, {ThisBucket, prior})
            ELSE QuotaRowsOf(monthly_quota', s) = QuotaRowsOf(monthly_quota, s)

\* C33: after run_monthly_reset processed a student, the student's
\* current-month quota row exists exactly once with send_limit 100,
\* credits_sent 0, carry_forward_credits = min(unused, 50),
\* carry_forward_applied = (carry_forward > 0) and reset_at set, whether the
\* job created the row or it existed from lazy creation; the prior month's
\* row, if there is one, has carry_forward_applied = true and is otherwise
\* unchanged; the student's rows of other months and the rows of students the
\* run skipped are unchanged.
C33_ResetRewritesQuotaRow == [][C33_ResetStep]_vars

\* a run of the third month rewrote a lazily created row that counted a send,
\* granted a carry-forward, marked the second month's row and left the first
\* month's row as it was
C33_Witness ==
  /\ MonthsElapsed = 2
  /\ last.op = "run_monthly_reset"
  /\ \E s \in students :
        /\ last.ret.students[s].processed
        /\ SentInMonth(s, ThisBucket) > 0
        /\ QuotaPos(monthly_quota, s, ThisBucket) # 0
        /\ QuotaRow(monthly_quota, s, ThisBucket).credits_sent = 0
        /\ QuotaRow(monthly_quota, s, ThisBucket).carry_forward_credits = 50
        /\ QuotaPos(monthly_quota, s, previous_month_bucket(ThisBucket)) # 0
        /\ QuotaRow(monthly_quota, s, previous_month_bucket(ThisBucket)).carry_forward_applied
        /\ QuotaPos(monthly_quota, s, month_bucket(<<StartMonth[1], StartMonth[2], 1>>)) # 0

\* C34: in every committed state, for every student and month bucket that
\* has a quota row, credits_sent equals the total credits of the student's
\* RECOGNITION_SENT ledger entries tagged with that bucket, after any sequence
\* of recognitions and monthly reset runs.
C34_CreditsSentMatchesLedger ==
  \A i \in 1..Len(monthly_quota) :
     monthly_quota[i].credits_sent
        = SentInMonth(monthly_quota[i].student_id, monthly_quota[i].month_bucket)

\* two create_recognition transactions of opposite directions in flight
OppositeDirections(p, q) ==
  /\ p # q
  /\ txn[p].op = "create_recognition" /\ txn[q].op = "create_recognition"
  /\ txn[p].req[1] = txn[q].req[2]
  /\ txn[p].req[2] = txn[q].req[1]

\* each of the two waits for a quota row the other one holds
WaitCycle(p, q) ==
  /\ WaitsFor(p) # None /\ Holds(q, WaitsFor(p))
  /\ WaitsFor(q) # None /\ Holds(p, WaitsFor(q))

\* C35: two concurrent create_recognition transactions in opposite
\* directions (A to B and B to A, same month), each taking the sender's quota
\* row and then the receiver's, never wait on each other in a cycle, and a
\* recognition never ends in a database error for a deadlock: it commits or
\* is rejected for a rule violation.
C35_NoWaitCycle ==
  /\ \A p, q \in Procs : OppositeDirections(p, q) => ~WaitCycle(p, q)
  /\ ~(last.op = "create_recognition" /\ last.status = 500
        /\ last.ret = "DeadlockDetected")

\* the sum of a function over a set of students
RECURSIVE SumOver(_, _)
SumOver(f, S) ==
  IF S = {} THEN 0
  ELSE LET x == CHOOSE y \in S : TRUE
       IN  f[x] + SumOver(f, S \ {x})

\* the sum of the absolute values of a sequence of deltas
RECURSIVE SumAbs(_)
SumAbs(deltas) ==
  IF deltas = <<>> THEN 0
  ELSE (IF Head(deltas) < 0 THEN -Head(deltas) ELSE Head(deltas)) + SumAbs(Tail(deltas))

\* the students a run of the current month does not skip: no quota row for
\* the month yet, or a row no run has stamped
NotYetReset(s) ==
  \/ QuotaPos(monthly_quota, s, ThisBucket) = 0
  \/ QuotaRow(monthly_quota, s, ThisBucket).reset_at = None

C36_ResetStep ==
  ExecuteMonthlyReset =>
     LET prior == previous_month_bucket(ThisBucket)
         processed == {s \in students : NotYetReset(s)}
         unused == [s \in students |-> AllowanceLeft(s, prior)]
         carried == [s \in students |-> CappedAt50(unused[s])]
         expired == [s \in students |-> unused[s] - CappedAt50(unused[s])]
         debited == [s \in students |->
                       SumAbs(AppendedDeltas(s, "CARRY_FORWARD_EXPIRED"))]
         summary == last'.ret.summary
     IN  /\ summary.students_processed = Cardinality(processed)
         /\ summary.carry_forward_total = SumOver(carried, processed)
         /\ summary.expired_total = SumOver(expired, processed)
         /\ summary.carry_forward_total + summary.expired_total
               = SumOver(debited, students)

\* C36: run_monthly_reset returns a summary where students_processed is the
\* number of students the idempotency check did not skip, carry_forward_total
\* is the sum of min(unused, 50) over them, expired_total the sum of
\* unused - min(unused, 50), and carry_forward_total + expired_total equals
\* the sum of the absolute deltas of the CARRY_FORWARD_EXPIRED entries the
\* run appended.
C36_SummaryTotals == [][C36_ResetStep]_vars

\* a run that processed both students, one with 70 unused and one with 100:
\* 100 carried forward, 70 expired, 170 debited by CARRY_FORWARD_EXPIRED
C36_Witness ==
  /\ last.op = "run_monthly_reset"
  /\ last.ret.summary = [students_processed |-> 2, carry_forward_total |-> 100,
                         expired_total |-> 70]
  /\ \E s \in students :
        /\ last.ret.students[s].unused = 70
        /\ \E i \in 1..Len(ledger) :
              /\ ledger[i].student_id = s
              /\ ledger[i].event_type = "CARRY_FORWARD_EXPIRED"
              /\ ledger[i].month_bucket = ThisBucket
              /\ ledger[i].credits_delta = -70

====
